---- MODULE Spec2Model ----
(***************************************************************************)
(* Ingestion-and-retrieval pipeline of rag-financial.                      *)
(*                                                                         *)
(* backend/nlp/embeddings.js : generateEmbedding, waitForRateLimit,        *)
(*     generateBatchEmbeddings, generateBatchWithErrorHandling,            *)
(*     the LRU embeddingCache and the RATE_LIMIT pacing clock.             *)
(* backend/db/pinecone.js    : insertVectors.                              *)
(* backend/nlp/chunk.js      : chunkText and its helpers.                  *)
(*                                                                         *)
(* Node.js runs one callback at a time: every action below is one          *)
(* run-to-completion segment of the code, from one await to the next.      *)
(* Time is a discrete clock; a timer set for time t fires at t or later.   *)
(***************************************************************************)
EXTENDS Integers, Sequences, FiniteSets, TLC

\* ---------------------------------------------------------------- bounds
\* Distinct non-blank input texts (text 0 is the blank string).
NumTexts == 2
\* Largest options.maxRetries / API_RETRY_ATTEMPTS the model draws (the code's
\* default is 3); the batch functions always run with the default.
MaxRetries == 2
\* Clock ticks the model lets pass.
MaxTime == 4
\* Clock ticks per second (all the code's delays are whole seconds).
UnitsPerSecond == 1
\* options.timeout / API_TIMEOUT in seconds (the code's default is 30).
TimeoutSeconds == 1
\* embeddingCache capacity (the code's max is 1000).
CacheMax == 1
\* Longest texts array handed to the batch functions.
MaxBatchLen == 3
\* Sub-batch size of generateBatchEmbeddings (the code's batchSize is 10).
batchSize == 2
\* Longest document handed to chunkText, in sentences.
MaxSentences == 4

\* the largest topK of a request that is not over the limit
MaxTopK == 2

\* the token budget of the assembled context
maxContextTokens == 8

\* how many chat messages are accepted in one behaviour
MaxMessages == 6

\* how many conversations are stored at most when a request without a
\* conversation id is accepted
MaxConversations == 1

\* how many chunks a streamed answer has at most
MaxStreamChunks == 1

\* how many chat sessions the page creates in one behaviour
MaxSessions == 3

\* how many messages the user sends from the page in one behaviour
MaxSent == 2

\* ------------------------------------------------------ program constants
\* RATE_LIMIT.requestsPerMinute
requestsPerMinute == 60
\* parseInt(process.env.VECTOR_DIMENSIONS) || 768
expectedDimensions == 768
\* chunkText: if (trimmedText.length < 100)
ShortTextLength == 100

\* The two concurrent callers of generateEmbedding.
Callers == {1, 2}
\* The concurrent search requests, each calling generateQueryEmbedding.
Requests == {1, 2, 3}
\* One slot per generateEmbedding invocation that can be running at a time.
Slots == Callers \cup Requests \cup (1..batchSize)
BlankText == 0
Texts == 0..NumTexts

VARIABLES
    now,              \* Date.now(), in clock ticks
    embeddingCache,   \* LRU cache: sequence of [key, value], least recent first
    lastRequestTime,  \* RATE_LIMIT.lastRequestTime
    calls,            \* the generateEmbedding invocations, one record per slot
    spawn,            \* invocations the running synchronous code still starts
    batch,            \* the generateBatchEmbeddings invocation
    seqBatch,         \* the generateBatchWithErrorHandling invocation
    cancelRequested,  \* the caller's deadline passed / cancellation signal fired
    store,            \* the vectors upserted by insertVectors
    chunker,          \* the chunkText invocation
    search,           \* the POST /api/search or /api/search/hybrid request
    chat,             \* the POST /api/chat request
    conversationHistory, \* the Map of conversation id to array of messages
    appended,         \* per stored conversation, every message pushed to it
    chatRequests,     \* the chat requests (plain and streaming) being served
    messageCount,     \* how many chat messages were accepted so far
    upload,           \* the POST /api/upload request
    ui                \* the chat page of the browser (frontend/js/chat.js)

conversationVars == <<conversationHistory, appended, chatRequests, messageCount>>

vars == <<now, embeddingCache, lastRequestTime, calls, spawn, batch, seqBatch,
          cancelRequested, store, chunker, search, chat, conversationVars, upload, ui>>

\* ------------------------------------------------------------ pure helpers
Pow2(n) == IF n <= 0 THEN 1 ELSE 2 ^ n

Min(a, b) == IF a < b THEN a ELSE b

\* const minInterval = (60 * 1000) / RATE_LIMIT.requestsPerMinute, in ticks
minInterval == (60 * UnitsPerSecond) \div requestsPerMinute

\* const { timeout = ... } = options, in ticks
timeout == TimeoutSeconds * UnitsPerSecond

\* Math.pow(2, attempt) * 1000, in ticks
backoffTime(attempt) == Pow2(attempt) * UnitsPerSecond

\* crypto md5 of the text: distinct texts of the model get distinct keys
generateCacheKey(text) == <<"md5", text>>

\* ----------------------------------------------------------------- values
NoResult == [kind |-> "none"]

\* result.embedding.values of a provider response for `text`
Vector(text, length, finite) ==
    [kind |-> "vector", src |-> text, len |-> length, finite |-> finite]

\* new Error(`Failed to generate embedding after ${maxRetries} attempts: ${lastError.message}`)
FailedAfter(maxRetries, lastError) ==
    [kind |-> "error", attempts |-> maxRetries, msg |-> lastError]

\* line 130 when the loop ran no iteration: lastError is undefined and reading
\* lastError.message throws a TypeError
NoAttemptError == [kind |-> "error", attempts |-> 0, msg |-> "TypeError"]

\* new Error('Invalid query for embedding generation')
InvalidQueryError == [kind |-> "error", attempts |-> 0, msg |-> "Invalid query"]

\* new Error('Invalid text input for embedding generation')
InvalidTextError == [kind |-> "error", attempts |-> 0, msg |-> "Invalid text input"]

\* What one provider attempt can produce before its deadline.
Outcomes == {"ok", "nonFinite", "wrongDim", "noValues", "transient", "permanent"}

\* The vector carried by a response that has one.
ResponseVector(text, outcome) ==
    CASE outcome = "ok" -> Vector(text, expectedDimensions, TRUE)
      [] outcome = "nonFinite" -> Vector(text, expectedDimensions, FALSE)
      [] outcome = "wrongDim" -> Vector(text, expectedDimensions * 2, TRUE)

\* Variant: the length of the returned vector is not checked.
AttemptErrorNoLengthCheck(text, outcome) ==
    CASE outcome = "transient" -> "503 Service Unavailable"
      [] outcome = "permanent" -> "401 API key not valid"
      [] outcome = "timeout" -> "Embedding generation timeout"
      [] outcome = "noValues" -> "Invalid embedding response from API"
      [] OTHER -> ""

\* lines 96-108: the message of the error an attempt ends with, "" when the
\* attempt succeeds
AttemptError(text, outcome) ==
    CASE outcome = "transient" -> "503 Service Unavailable"
      [] outcome = "permanent" -> "401 API key not valid"
      [] outcome = "timeout" -> "Embedding generation timeout"
      [] outcome = "noValues" -> "Invalid embedding response from API"
      [] outcome \in {"ok", "nonFinite", "wrongDim"} ->
            IF ResponseVector(text, outcome).len # expectedDimensions
            THEN "Embedding dimension mismatch"
            ELSE ""

\* ------------------------------------------------------------ embeddingCache
CacheHas(cache, key) == \E i \in 1..Len(cache) : cache[i].key = key

CachePeek(cache, key) ==
    cache[CHOOSE i \in 1..Len(cache) : cache[i].key = key].value

CacheWithout(cache, key) == SelectSeq(cache, LAMBDA e : e.key # key)

\* embeddingCache.get(key): the entry becomes the most recently used
CacheGet(cache, key) ==
    Append(CacheWithout(cache, key), [key |-> key, value |-> CachePeek(cache, key)])

\* embeddingCache.set(key, value): replaces the key's entry, evicts the least
\* recently used entry when the cache is over its max
CacheSet(cache, key, value) ==
    LET added == Append(CacheWithout(cache, key), [key |-> key, value |-> value])
    IN  IF Len(added) > CacheMax THEN Tail(added) ELSE added

\* ------------------------------------------------------- generateEmbedding
\* One invocation: its arguments, the locals of its retry loop, and its
\* history (sent: provider attempts made, sleeps: backoff sleeps taken,
\* lastOutcome: how the latest attempt ended, peers: the invocations for the
\* same text that were running when this one started).
IdleCall ==
    [pc |-> "idle", text |-> BlankText, useCache |-> TRUE, maxRetries |-> 1,
     attempt |-> 0, lastError |-> "", wakeAt |-> 0, deadline |-> 0, sent |-> 0,
     sleeps |-> <<>>, lastOutcome |-> "none", result |-> NoResult,
     owner |-> "none", index |-> 0, peers |-> {}]

\* waitForRateLimit: how long the call has to sleep before it may dispatch
waitTime ==
    IF now - lastRequestTime < minInterval
    THEN minInterval - (now - lastRequestTime)
    ELSE 0

\* embeddings.push(null)
Null == [kind |-> "null"]

\* what a progressCallback that throws raises
CallbackError == [kind |-> "error", attempts |-> 0, msg |-> "progressCallback threw"]

\* order: the slots of the awaited sub-batch in the order their promises settled;
\* callbackThrows: a progressCallback was passed and it throws when called
IdleBatch ==
    [pc |-> "idle", texts |-> <<>>, i |-> 0, embeddings |-> <<>>, error |-> NoResult,
     order |-> <<>>, callbackThrows |-> FALSE]

IdleSeqBatch ==
    [pc |-> "idle", texts |-> <<>>, i |-> 0, embeddings |-> <<>>, errors |-> <<>>,
     successCount |-> 0, failureCount |-> 0, callbackThrows |-> FALSE]

\* batch = texts.slice(i, Math.min(i + batchSize, texts.length)), mapped to the
\* generateEmbedding invocations the synchronous map starts, in index order
SubBatch(texts, i, retries) ==
    [j \in 1..Min(batchSize, Len(texts) - i) |->
        [slot |-> j, text |-> texts[i + j], maxRetries |-> retries,
         owner |-> "batch", index |-> i + j - 1]]

\* Variant: the results are gathered in the order the promises settled.
BatchResultsByCompletion(cs, order) == [j \in 1..Len(order) |-> cs[order[j]].result]

\* const batchResults = await Promise.all(batchPromises): one result per
\* promise, in the order of the promises, whatever order they settled in
BatchResults(cs, order) == [j \in 1..Len(order) |-> cs[j].result]

\* generateBatchEmbeddings lines 154-172, run when a promise of the awaited
\* sub-batch settles: Promise.all rejects with the first rejection and
\* resolves once every promise of the sub-batch is fulfilled
BatchSettled(cs, p, sq) ==
    LET res == cs[p].result
        n == Min(batchSize, Len(batch.texts) - batch.i)
        order == Append(batch.order, p)
        embeddings == batch.embeddings \o BatchResults(cs, order)
        next == batch.i + batchSize
    IN  IF batch.pc # "awaiting"
        THEN calls' = cs /\ spawn' = sq /\ UNCHANGED <<batch, seqBatch>>
        ELSE IF res.kind = "error"
        THEN /\ calls' = cs
             /\ batch' = [batch EXCEPT !.pc = "thrown", !.error = res, !.order = order]
             /\ spawn' = sq
             /\ UNCHANGED seqBatch
        ELSE IF \A j \in 1..n : cs[j].pc = "done"
        THEN IF batch.callbackThrows
             THEN /\ batch' = [batch EXCEPT !.embeddings = embeddings, !.pc = "thrown",
                                            !.error = CallbackError, !.order = order]
                  /\ calls' = cs
                  /\ spawn' = sq
                  /\ UNCHANGED seqBatch
             ELSE IF next < Len(batch.texts)
             THEN /\ batch' = [batch EXCEPT !.embeddings = embeddings, !.i = next,
                                            !.order = <<>>]
                  /\ calls' = [q \in Slots |-> IdleCall]
                  /\ spawn' = sq \o SubBatch(batch.texts, next, cs[p].maxRetries)
                  /\ UNCHANGED seqBatch
             ELSE /\ batch' = [batch EXCEPT !.embeddings = embeddings,
                                            !.pc = "returned", !.order = order]
                  /\ calls' = cs
                  /\ spawn' = sq
                  /\ UNCHANGED seqBatch
        ELSE /\ calls' = cs
             /\ batch' = [batch EXCEPT !.order = order]
             /\ spawn' = sq
             /\ UNCHANGED seqBatch

\* generateBatchWithErrorHandling lines 351-369, run when the awaited
\* generateEmbedding(texts[i]) settles: the rest of the try block (lines
\* 354-359) when it fulfilled, and the catch block (lines 361-366) when it
\* rejected or the progress callback threw
SeqSettled(cs, p, sq) ==
    LET res == cs[p].result
        i == seqBatch.i
        rejected == res.kind = "error"
        tried ==
            IF rejected THEN seqBatch
            ELSE [seqBatch EXCEPT !.embeddings = Append(@, res),
                                  !.successCount = @ + 1]
        caught == rejected \/ seqBatch.callbackThrows
        error == IF rejected THEN res ELSE CallbackError
        handled ==
            IF caught
            THEN [tried EXCEPT !.embeddings = Append(@, Null),
                               !.errors = Append(@, [index |-> i, error |-> error.msg]),
                               !.failureCount = @ + 1]
            ELSE tried
        after == [handled EXCEPT !.i = i + 1]
    IN  IF i + 1 < Len(seqBatch.texts)
        THEN /\ seqBatch' = after
             /\ calls' = [cs EXCEPT ![p] = IdleCall]
             /\ spawn' = Append(sq, [slot |-> p, text |-> seqBatch.texts[i + 2],
                                     maxRetries |-> cs[p].maxRetries,
                                     owner |-> "seq", index |-> i + 1])
             /\ UNCHANGED batch
        ELSE /\ seqBatch' = [after EXCEPT !.pc = "returned"]
             /\ calls' = cs
             /\ spawn' = sq
             /\ UNCHANGED batch

\* The promise of invocation p settles with res (a return or a throw); the code
\* awaiting it continues in the same turn of the event loop.
Settle(p, c, res, sq) ==
    LET cs == [calls EXCEPT ![p] =
                  [c EXCEPT !.pc = "done", !.result = res, !.wakeAt = 0, !.deadline = 0]]
    IN  CASE c.owner = "batch" -> BatchSettled(cs, p, sq)
          [] c.owner = "seq" -> SeqSettled(cs, p, sq)
          [] OTHER -> calls' = cs /\ spawn' = sq /\ UNCHANGED <<batch, seqBatch>>

\* lines 89-96: lastRequestTime is stamped, embedContent is called and raced
\* against the timeout timer
Dispatch(p, c, sq) ==
    /\ calls' = [calls EXCEPT ![p] =
                    [c EXCEPT !.pc = "inFlight", !.sent = @ + 1,
                              !.deadline = now + timeout, !.wakeAt = 0]]
    /\ lastRequestTime' = now
    /\ spawn' = sq
    /\ UNCHANGED <<batch, seqBatch>>

\* lines 83-86: one iteration of the retry loop up to its first await
Attempt(p, c, sq) ==
    IF waitTime > 0
    THEN /\ calls' = [calls EXCEPT ![p] =
                         [c EXCEPT !.pc = "rateWait", !.wakeAt = now + waitTime]]
         /\ spawn' = sq
         /\ UNCHANGED <<lastRequestTime, batch, seqBatch>>
    ELSE Dispatch(p, c, sq)

\* Variant: the cache is written but never consulted.
CacheHitNever(useCache, key) == FALSE

\* line 76: useCache && embeddingCache.has(cacheKey)
CacheHit(useCache, key) == useCache /\ CacheHas(embeddingCache, key)

\* generateEmbedding lines 63-86: from the call to its first await
Start(p, text, useCache, maxRetries, owner, index, sq) ==
    LET c == [IdleCall EXCEPT !.text = text, !.useCache = useCache,
                              !.maxRetries = maxRetries, !.owner = owner,
                              !.index = index,
                              !.peers = {q \in Slots \ {p} :
                                            /\ calls[q].pc \notin {"idle", "done"}
                                            /\ calls[q].text = text}]
        key == generateCacheKey(text)
    IN  IF text = BlankText
        THEN /\ Settle(p, c, InvalidTextError, sq)
             /\ UNCHANGED <<embeddingCache, lastRequestTime>>
        ELSE IF CacheHit(useCache, key)
        THEN /\ Settle(p, c, CachePeek(embeddingCache, key), sq)
             /\ embeddingCache' = CacheGet(embeddingCache, key)
             /\ UNCHANGED lastRequestTime
        ELSE IF maxRetries < 1
        THEN /\ Settle(p, c, NoAttemptError, sq)
             /\ UNCHANGED <<embeddingCache, lastRequestTime>>
        ELSE /\ Attempt(p, c, sq)
             /\ UNCHANGED embeddingCache

\* Variant: the backoff sleep is also taken after the last attempt.
RetryAgainAfterLast(attempt, maxRetries) == attempt < maxRetries

\* line 122: attempt < maxRetries - 1
RetryAgain(attempt, maxRetries) == attempt < maxRetries - 1

\* lines 117-130: the catch block, and the throw after the last attempt
Failed(p, c, err) ==
    LET c1 == [c EXCEPT !.lastError = err, !.deadline = 0]
    IN  IF RetryAgain(c.attempt, c.maxRetries)
        THEN /\ calls' = [calls EXCEPT ![p] =
                             [c1 EXCEPT !.pc = "backoff",
                                        !.wakeAt = now + backoffTime(c.attempt),
                                        !.sleeps = Append(@, backoffTime(c.attempt))]]
             /\ UNCHANGED <<embeddingCache, lastRequestTime, spawn, batch, seqBatch>>
        ELSE /\ Settle(p, c1, FailedAfter(c.maxRetries, c1.lastError), <<>>)
             /\ UNCHANGED <<embeddingCache, lastRequestTime>>

\* ------------------------------------------------------------------ actions
Quiet == spawn = <<>>

\* A caller invokes generateEmbedding(text, {useCache, maxRetries}); the
\* invocation takes the first free slot.
Invoke(p, text, useCache, maxRetries) ==
    /\ Quiet
    /\ calls[p].pc = "idle"
    /\ \A q \in 1..(p - 1) : calls[q].pc # "idle"
    /\ Start(p, text, useCache, maxRetries, "direct", 0, <<>>)
    /\ UNCHANGED <<now, cancelRequested, store, chunker, search, chat, conversationVars, upload, ui>>

\* The running synchronous code starts its next generateEmbedding invocation.
Spawn ==
    /\ spawn # <<>>
    /\ LET s == Head(spawn)
       IN  Start(s.slot, s.text, TRUE, s.maxRetries, s.owner, s.index, Tail(spawn))
    /\ UNCHANGED <<now, cancelRequested, store, chunker, search, chat, conversationVars, upload, ui>>

\* The timer of waitForRateLimit (line 50) fires; lines 53 and 89-96 follow.
RateWaitDone(p) ==
    /\ Quiet
    /\ calls[p].pc = "rateWait"
    /\ now >= calls[p].wakeAt
    /\ Dispatch(p, calls[p], <<>>)
    /\ UNCHANGED <<now, embeddingCache, cancelRequested, store, chunker, search, chat, conversationVars, upload, ui>>

\* embedContent settles before the timeout timer fires (lines 96-115).
ProviderRespond(p, outcome) ==
    /\ Quiet
    /\ calls[p].pc = "inFlight"
    /\ now <= calls[p].deadline
    /\ LET c == [calls[p] EXCEPT !.lastOutcome = outcome]
           err == AttemptError(c.text, outcome)
           embedding == ResponseVector(c.text, outcome)
       IN  IF err = ""
           THEN /\ embeddingCache' =
                       IF c.useCache
                       THEN CacheSet(embeddingCache, generateCacheKey(c.text), embedding)
                       ELSE embeddingCache
                /\ Settle(p, c, embedding, <<>>)
                /\ UNCHANGED lastRequestTime
           ELSE Failed(p, c, err)
    /\ UNCHANGED <<now, cancelRequested, store, chunker, search, chat, conversationVars, upload, ui>>

\* The timeout timer (line 93) fires first: the race rejects.
Timeout(p) ==
    /\ Quiet
    /\ calls[p].pc = "inFlight"
    /\ now >= calls[p].deadline
    /\ Failed(p, [calls[p] EXCEPT !.lastOutcome = "timeout"],
              AttemptError(calls[p].text, "timeout"))
    /\ UNCHANGED <<now, cancelRequested, store, chunker, search, chat, conversationVars, upload, ui>>

\* The backoff timer (line 125) fires; the loop goes to its next attempt.
BackoffDone(p) ==
    /\ Quiet
    /\ calls[p].pc = "backoff"
    /\ now >= calls[p].wakeAt
    /\ LET c == [calls[p] EXCEPT !.attempt = @ + 1, !.wakeAt = 0]
       IN  IF c.attempt < c.maxRetries
           THEN Attempt(p, c, <<>>)
           ELSE /\ Settle(p, c, FailedAfter(c.maxRetries, c.lastError), <<>>)
                /\ UNCHANGED lastRequestTime
    /\ UNCHANGED <<now, embeddingCache, cancelRequested, store, chunker, search, chat, conversationVars, upload, ui>>

\* Time passes.
Tick ==
    /\ Quiet
    /\ now < MaxTime
    /\ now' = now + 1
    /\ UNCHANGED <<embeddingCache, lastRequestTime, calls, spawn, batch, seqBatch,
                   cancelRequested, store, chunker, search, chat, conversationVars, upload, ui>>

\* An entry outlives its ttl (one hour, beyond the horizon of the clock).
CacheExpire(i) ==
    /\ Quiet
    /\ i \in 1..Len(embeddingCache)
    /\ embeddingCache' = CacheWithout(embeddingCache, embeddingCache[i].key)
    /\ UNCHANGED <<now, lastRequestTime, calls, spawn, batch, seqBatch,
                   cancelRequested, store, chunker, search, chat, conversationVars, upload, ui>>

\* ------------------------------------------------------------------ chunk.js
\* A document is the sequence of sentences the sentence tokenizer finds in it,
\* single-spaced; a sentence is w words of wordLen characters each (the
\* two-word kind is one that tokenizeSentences filters out).
SentenceKinds ==
    { [w |-> 2, wordLen |-> 30], [w |-> 4, wordLen |-> 10], [w |-> 8, wordLen |-> 8] }

Documents == UNION {[1..k -> SentenceKinds] : k \in 0..MaxSentences}

\* options.chunkSize and options.overlap, in tokens
ChunkSizes == {8, 16}
Overlaps == {-2, 0, 6}

RECURSIVE Sum(_)
Sum(numbers) == IF numbers = <<>> THEN 0 ELSE Head(numbers) + Sum(Tail(numbers))

\* The length of w words of wordLen characters joined by single spaces.
JoinedLength(w, wordLen) == w * wordLen + (w - 1)

\* trimmedText.length
TextLength(doc) ==
    IF doc = <<>> THEN 0
    ELSE Sum([i \in 1..Len(doc) |-> JoinedLength(doc[i].w, doc[i].wordLen)]) + (Len(doc) - 1)

\* text.split(/\s+/).length
WordCount(doc) == Sum([i \in 1..Len(doc) |-> doc[i].w])

\* The length of every word of the text, in order.
RECURSIVE WordLengths(_)
WordLengths(doc) ==
    IF doc = <<>> THEN <<>>
    ELSE [j \in 1..Head(doc).w |-> Head(doc).wordLen] \o WordLengths(Tail(doc))

\* countTokens without the tiktoken encoder: Math.ceil(words.length * 1.3)
countTokens(words) == (13 * words + 9) \div 10

\* The text of sentences first..last of the document, as one string.
Span(doc, first, last) ==
    [first |-> first, last |-> last,
     w |-> WordCount(SubSeq(doc, first, last)),
     len |-> TextLength(SubSeq(doc, first, last))]

\* tokenizeSentences (preprocess.js lines 85-103): the tokenizer's sentences
\* without the short ones; the whole text as one sentence when it throws
tokenizeSentences(doc, throws) ==
    IF doc = <<>> THEN <<>>
    ELSE IF throws THEN <<Span(doc, 1, Len(doc))>>
    ELSE SelectSeq([i \in 1..Len(doc) |-> Span(doc, i, i)],
                   LAMBDA s : s.len > 10 /\ s.w > 2)

\* countTokens of sentences joined by spaces
JoinedTokens(sents) == countTokens(Sum([i \in 1..Len(sents) |-> sents[i].w]))

\* The length of a string of `lead` spaces and then each sentence with a
\* space after it.
ChunkLength(lead, sents) == lead + Sum([i \in 1..Len(sents) |-> sents[i].len + 1])

\* Variant: the last sentence is carried over whatever its token count.
getOverlapSentencesOverTarget(sentences, targetOverlapTokens) ==
    IF sentences = <<>> THEN <<>> ELSE <<sentences[Len(sentences)]>>

\* getOverlapSentences lines 169-187: the longest suffix of whole sentences
\* taken from the end while the token count stays within the target
RECURSIVE getOverlapSentences(_, _)
getOverlapSentences(sentences, targetOverlapTokens) ==
    IF sentences = <<>> THEN <<>>
    ELSE LET sentence == sentences[Len(sentences)]
             sentenceTokens == countTokens(sentence.w)
         IN  IF sentenceTokens > targetOverlapTokens THEN <<>>
             ELSE Append(getOverlapSentences(SubSeq(sentences, 1, Len(sentences) - 1),
                                             targetOverlapTokens - sentenceTokens),
                         sentence)

\* Variant: the fallback gives up and returns no chunk.
createSingleChunkNone(doc, throws) == <<>>

\* createSingleChunk lines 196-207
createSingleChunk(doc, throws) ==
    <<[text |-> <<Span(doc, 1, Len(doc))>>,
       chunkIndex |-> 0,
       startPosition |-> 0,
       endPosition |-> TextLength(doc),
       tokenCount |-> countTokens(WordCount(doc)),
       sentenceCount |-> IF Len(tokenizeSentences(doc, throws)) = 0 THEN 1
                         ELSE Len(tokenizeSentences(doc, throws))]>>

\* Math.ceil(overlap / 1.3)
overlapWords(overlap) == -((-(10 * overlap)) \div 13)

\* currentChunk.slice(-n) of the words lo..hi: the first word that is kept
SliceFrom(lo, hi, n) ==
    IF n > 0 THEN (IF hi - n + 1 > lo THEN hi - n + 1 ELSE lo)
    ELSE IF n = 0 THEN lo
    ELSE lo - n

\* Variant: the index is not advanced when a chunk is closed.
NextChunkIndexStuck(chunkIndex) == chunkIndex

\* chunkIndex++
NextChunkIndex(chunkIndex) == chunkIndex + 1

\* path: the return statement chunkText left by
IdleChunker ==
    [pc |-> "idle", doc |-> <<>>, throws |-> FALSE, chunkSize |-> 0, overlap |-> 0,
     preserveSentences |-> TRUE, sentences |-> <<>>, i |-> 0, lead |-> 0,
     currentChunk |-> <<>>, currentTokenCount |-> 0, chunkIndex |-> 0,
     startPosition |-> 0, sentenceBuffer |-> <<>>, lo |-> 1, chunks |-> <<>>,
     path |-> "none"]

ChunkFrame ==
    UNCHANGED <<now, embeddingCache, lastRequestTime, calls, spawn, batch, seqBatch,
                cancelRequested, store, search, chat, conversationVars, upload, ui>>

\* chunkText lines 50-92: validation, the short-text shortcut, tokenization
ChunkStart(doc, chunkSize, overlap, preserveSentences, throws) ==
    /\ chunker.pc = "idle"
    /\ LET c == [IdleChunker EXCEPT !.doc = doc, !.throws = throws,
                    !.chunkSize = chunkSize, !.overlap = overlap,
                    !.preserveSentences = preserveSentences]
           sentences == tokenizeSentences(doc, throws)
       IN  chunker' =
             IF doc = <<>> THEN [c EXCEPT !.pc = "done", !.path = "blank"]
             ELSE IF TextLength(doc) < ShortTextLength
             THEN [c EXCEPT !.pc = "done", !.path = "short",
                            !.chunks = createSingleChunk(doc, throws)]
             ELSE IF ~preserveSentences THEN [c EXCEPT !.pc = "words"]
             ELSE IF Len(sentences) = 0
             THEN [c EXCEPT !.pc = "done", !.path = "noSentences",
                            !.chunks = createSingleChunk(doc, throws)]
             ELSE [c EXCEPT !.pc = "sentences", !.sentences = sentences]

ChunkInvoke(doc, chunkSize, overlap, preserveSentences, throws) ==
    /\ ChunkStart(doc, chunkSize, overlap, preserveSentences, throws)
    /\ ChunkFrame

\* chunkText lines 94-126: one iteration of the loop over the sentences
SentenceStep ==
    /\ chunker.pc = "sentences"
    /\ chunker.i < Len(chunker.sentences)
    /\ LET c == chunker
           sentence == c.sentences[c.i + 1]
           sentenceTokens == countTokens(sentence.w)
           close == /\ c.currentTokenCount + sentenceTokens > c.chunkSize
                    /\ ChunkLength(c.lead, c.currentChunk) > 0
           overlapSentences == getOverlapSentences(c.sentenceBuffer, c.overlap)
           lead == IF overlapSentences = <<>> THEN 1 ELSE 0
           closed ==
               [c EXCEPT
                   !.chunks = Append(@,
                       [text |-> c.currentChunk,
                        chunkIndex |-> c.chunkIndex,
                        startPosition |-> c.startPosition,
                        endPosition |-> c.startPosition
                                          + ChunkLength(c.lead, c.currentChunk),
                        tokenCount |-> c.currentTokenCount,
                        sentenceCount |-> Len(c.sentenceBuffer)]),
                   !.lead = lead,
                   !.currentChunk = overlapSentences,
                   !.currentTokenCount = JoinedTokens(overlapSentences),
                   !.startPosition = @ + ChunkLength(lead, overlapSentences),
                   !.chunkIndex = NextChunkIndex(@),
                   !.sentenceBuffer = overlapSentences]
           c1 == IF close THEN closed ELSE c
       IN  chunker' = [c1 EXCEPT !.currentChunk = Append(@, sentence),
                                 !.currentTokenCount = @ + sentenceTokens,
                                 !.sentenceBuffer = Append(@, sentence),
                                 !.i = @ + 1]
    /\ ChunkFrame

\* chunkText lines 128-159: the final chunk, the fallback, the return
SentenceFinish ==
    /\ chunker.pc = "sentences"
    /\ chunker.i = Len(chunker.sentences)
    /\ LET c == chunker
           chunks ==
               IF c.currentChunk # <<>>
               THEN Append(c.chunks,
                       [text |-> c.currentChunk,
                        chunkIndex |-> c.chunkIndex,
                        startPosition |-> c.startPosition,
                        endPosition |-> c.startPosition
                                          + ChunkLength(c.lead, c.currentChunk),
                        tokenCount |-> c.currentTokenCount,
                        sentenceCount |-> Len(c.sentenceBuffer)])
               ELSE c.chunks
       IN  chunker' = [c EXCEPT !.pc = "done",
                          !.path = IF chunks = <<>> THEN "empty" ELSE "sentences",
                          !.chunks = IF chunks = <<>>
                                     THEN createSingleChunk(c.doc, c.throws)
                                     ELSE chunks]
    /\ ChunkFrame

\* The length of words lo..hi joined by single spaces.
WordsLength(doc, lo, hi) ==
    IF hi < lo THEN 0
    ELSE Sum(SubSeq(WordLengths(doc), lo, hi)) + (hi - lo)

\* tokenBasedChunking lines 225-247: one iteration of the loop over the words;
\* currentChunk is the words lo..i of the text
WordStep ==
    /\ chunker.pc = "words"
    /\ chunker.i < WordCount(chunker.doc)
    /\ LET c == chunker
           hi == c.i + 1
           tokenCount == countTokens(IF hi < c.lo THEN 0 ELSE hi - c.lo + 1)
           length == WordsLength(c.doc, c.lo, hi)
       IN  chunker' =
             IF tokenCount >= c.chunkSize
             THEN [c EXCEPT
                     !.chunks = Append(@,
                         [text |-> [lo |-> c.lo, hi |-> hi],
                          chunkIndex |-> c.chunkIndex,
                          startPosition |-> c.startPosition,
                          endPosition |-> c.startPosition + length,
                          tokenCount |-> tokenCount]),
                     !.lo = SliceFrom(c.lo, hi, overlapWords(c.overlap)),
                     !.startPosition = @ + length,
                     !.chunkIndex = NextChunkIndex(@),
                     !.i = hi]
             ELSE [c EXCEPT !.i = hi]
    /\ ChunkFrame

\* tokenBasedChunking lines 249-263 and chunkText lines 144-159
WordFinish ==
    /\ chunker.pc = "words"
    /\ chunker.i = WordCount(chunker.doc)
    /\ LET c == chunker
           chunks ==
               IF c.lo <= c.i
               THEN Append(c.chunks,
                       [text |-> [lo |-> c.lo, hi |-> c.i],
                        chunkIndex |-> c.chunkIndex,
                        startPosition |-> c.startPosition,
                        endPosition |-> c.startPosition
                                          + WordsLength(c.doc, c.lo, c.i),
                        tokenCount |-> countTokens(c.i - c.lo + 1)])
               ELSE c.chunks
       IN  chunker' = [c EXCEPT !.pc = "done",
                          !.path = IF chunks = <<>> THEN "empty" ELSE "words",
                          !.chunks = IF chunks = <<>>
                                     THEN createSingleChunk(c.doc, c.throws)
                                     ELSE chunks]
    /\ ChunkFrame

\* chunkText lines 153-157: an exception inside the try block is caught and
\* the chunks built so far are given up for a single chunk
ChunkThrow ==
    /\ chunker.pc \in {"sentences", "words"}
    /\ chunker' = [chunker EXCEPT !.pc = "done", !.path = "caught",
                                  !.chunks = createSingleChunk(chunker.doc, chunker.throws)]
    /\ ChunkFrame

\* The steps of the running generateEmbedding invocations and of their
\* environment (timers, the provider, the clock, the cache's ttl).
CallStep ==
    \/ \E p \in Slots : RateWaitDone(p)
    \/ \E p \in Slots, o \in Outcomes : ProviderRespond(p, o)
    \/ \E p \in Slots : Timeout(p)
    \/ \E p \in Slots : BackoffDone(p)
    \/ Tick
    \/ \E i \in 1..CacheMax : CacheExpire(i)

\* ------------------------------------------------ the vector index (Pinecone)
\* Similarity scores are in units of 0.00001: 0.29996, 0.50004 and 0.75006.
Scores == {29996, 50004, 75006}

\* The chunks insertVectors (pinecone.js lines 119-141) wrote to the index,
\* with the metadata it gave them; a chunk text is kept as its number of tokens
\* and the set of terms it contains.
StoredChunks ==
    { [documentId |-> 1, filename |-> "a.pdf", chunkIndex |-> 0,
       chunkText |-> [tokens |-> 4, terms |-> {"revenue"}]],
      [documentId |-> 1, filename |-> "a.pdf", chunkIndex |-> 1,
       chunkText |-> [tokens |-> 5, terms |-> {"revenue", "growth"}]],
      [documentId |-> 2, filename |-> "b.pdf", chunkIndex |-> 0,
       chunkText |-> [tokens |-> 3, terms |-> {"costs"}]] }

\* id: `${documentId}_chunk_${idx}` (pinecone.js line 129)
VectorId(documentId, idx) == <<documentId, "chunk", idx>>

\* one element of queryResponse.matches
Match(chunk, score) ==
    [id |-> VectorId(chunk.documentId, chunk.chunkIndex), score |-> score,
     metadata |-> chunk]

\* What index.query({vector, topK, includeMetadata: true}) can answer for a
\* well-formed request (pinecone.js line 183): at most topK matches, no vector
\* twice, the most similar first.
IndexQuery(topK) ==
    { m \in UNION { [1..k -> { Match(c, sc) : c \in StoredChunks, sc \in Scores }] :
                        k \in 0..Min(topK, Cardinality(StoredChunks)) } :
        /\ \A i, j \in 1..Len(m) : i # j => m[i].id # m[j].id
        /\ \A i \in 1..(Len(m) - 1) : m[i].score >= m[i + 1].score }

\* What index.query can answer for a request that is not well formed (a vector
\* that is no array of numbers, a topK that is NaN): the client rejects it, or
\* some matches come back.
IndexQueryMalformed ==
    {[rejected |-> TRUE, matches |-> <<>>]}
        \cup {[rejected |-> FALSE, matches |-> m] : m \in IndexQuery(MaxTopK)}

\* the .map of pinecone.js lines 188-195
SearchResult(match) ==
    [id |-> match.id, similarity |-> match.score,
     chunkText |-> match.metadata.chunkText,
     chunkIndex |-> match.metadata.chunkIndex,
     documentId |-> match.metadata.documentId,
     filename |-> match.metadata.filename]

\* Variant: the matches are returned without the threshold filter.
searchSimilarVectorsNoFilter(matches, threshold) ==
    [i \in 1..Len(matches) |-> SearchResult(matches[i])]

\* searchSimilarVectors (pinecone.js lines 185-199) on the matches the index
\* answered: .filter(match => match.score >= threshold).map(...)
searchSimilarVectors(matches, threshold) ==
    LET kept == SelectSeq(matches, LAMBDA match : match.score >= threshold)
    IN  [i \in 1..Len(kept) |-> SearchResult(kept[i])]

\* array.slice(0, n)
Slice(array, n) == SubSeq(array, 1, Min(n, Len(array)))

\* hybridSearch (pinecone.js lines 410-436) on the results of its
\* searchSimilarVectors(queryEmbedding, topK * 2, threshold) call, for keywords
\* that are strings
hybridSearch(results, keywords, topK) ==
    IF Cardinality(keywords) > 0
    THEN Slice(SelectSeq(results,
                   LAMBDA result : \E keyword \in keywords :
                                        keyword \in result.chunkText.terms),
               topK)
    ELSE Slice(results, topK)

\* parseFloat(x).toFixed(4): the score rounded to units of 0.0001
toFixed4(x) == (x + 5) \div 10

\* -------------------------------------------------- routes/search.js requests
IdleSearch ==
    [pc |-> "idle", route |-> "none", query |-> BlankText, topK |-> 0,
     threshold |-> 0, vectorWeight |-> 0, keywordWeight |-> 0, status |-> 0,
     error |-> "", queried |-> FALSE, matches |-> <<>>, results |-> <<>>]

\* ----------------------------------------------------------- POST /api/chat
IdleChat ==
    [pc |-> "idle", message |-> BlankText, topK |-> 0, includeContext |-> TRUE,
     contextChunks |-> <<>>, context |-> <<>>, retries |-> 0, status |-> 0,
     citations |-> <<>>, contextUsed |-> FALSE, contextChunksCount |-> 0]

\* ------------------------------------------------- conversationHistory
\* the chat requests that can be in flight together
ChatSlots == {1, 2}

\* conversationId: null
NoConversation == <<"null", 0>>

\* generateConversationId(): `conv_${Date.now()}_${random}`, an id the Map does
\* not hold; up to a renaming of the ids, the first one that is free
generateConversationId(map) ==
    <<"conv", CHOOSE k \in 1..(Cardinality(DOMAIN map) + 1) :
                    /\ <<"conv", k>> \notin DOMAIN map
                    /\ \A j \in 1..(k - 1) : <<"conv", j>> \in DOMAIN map>>

\* result: how the slot's latest request ended, "failed" (status 500 or the
\* error event) or "none" (it was answered, or rejected with status 400)
IdleRequest ==
    [pc |-> "idle", route |-> "none", conversationId |-> NoConversation,
     message |-> 0, retries |-> 0, streamed |-> 0, result |-> "none"]

\* the messages of the requests that run together differ: the message of the
\* request in slot r is r
UserMessage(message) == [role |-> "user", content |-> message]

\* the answer the generator gave to `message`
AssistantMessage(message) == [role |-> "assistant", content |-> message]

\* Keep only last 10 messages
MaxHistoryLength == 10

\* Variant: the history is never cut.
TrimHistoryNever(history) == history

\* Variant: the history is cut to one message less.
TrimHistoryOdd(history) ==
    IF Len(history) > MaxHistoryLength
    THEN SubSeq(history, Len(history) - (MaxHistoryLength - 1) + 1, Len(history))
    ELSE history

\* if (history.length > 10) history.splice(0, history.length - 10)
TrimHistory(history) ==
    IF Len(history) > MaxHistoryLength
    THEN SubSeq(history, Len(history) - MaxHistoryLength + 1, Len(history))
    ELSE history

\* conversationHistory.has(id)
HasConversation(map, id) == id \in DOMAIN map

\* the history the two pushes are made on: the stored array, or the new []
\* set for an id the Map does not have
HistoryOf(map, id) == IF HasConversation(map, id) THEN map[id] ELSE <<>>

\* map.set(id, history)
MapSet(map, id, history) ==
    [k \in DOMAIN map \cup {id} |-> IF k = id THEN history ELSE map[k]]

\* map.delete(id) for every id of ids
MapDelete(map, ids) == [k \in DOMAIN map \ ids |-> map[k]]

\* const newConversationId = conversationId || generateConversationId()
newConversationId(map, request) ==
    IF request.conversationId = NoConversation
    THEN generateConversationId(map)
    ELSE request.conversationId

\* Variant: the history is updated whether or not the answer was produced.
HistoryUpdateReachedAlways(outcome) == TRUE

\* the history update comes after the awaits of the generator (sendMessage;
\* the for await over the stream): it is reached when they did not throw
HistoryUpdateReached(outcome) == outcome = "ok"

\* ------------------------------------------------------- POST /api/upload
\* documentId: null until insertDocument returned; file: the temporary file
\* multer wrote ("none" before the request, "temp", "deleted")
IdleUpload == [pc |-> "idle", documentId |-> "null", file |-> "none", status |-> 0]

\* ------------------------------------------------------ frontend/js/chat.js
\* The page after initializeChat (lines 534-596) found no stored history:
\* createNewChatSession made the first session and loaded it. Sessions are
\* numbered in the order of their creation ('chat_' + Date.now()).
\* inFlight: the fetch calls of sendMessage that have not settled, each with
\* the message it carries and the session its user message was saved in.
IdleUi ==
    [currentChatId |-> 1,
     chatHistory |-> [id \in {1} |-> <<>>],
     conversationId |-> "null",
     isProcessing |-> FALSE,
     inFlight |-> {},
     created |-> 1,
     sent |-> 0]

\* ------------------------------------- concurrent callers of generateEmbedding
Init ==
    /\ now = minInterval
    /\ embeddingCache = <<>>
    /\ lastRequestTime = 0
    /\ calls = [p \in Slots |-> IdleCall]
    /\ spawn = <<>>
    /\ batch = IdleBatch
    /\ seqBatch = IdleSeqBatch
    /\ cancelRequested = FALSE
    /\ store = <<>>
    /\ chunker = IdleChunker
    /\ search = IdleSearch
    /\ chat = IdleChat
    /\ conversationHistory = <<>>
    /\ appended = <<>>
    /\ chatRequests = [r \in ChatSlots |-> IdleRequest]
    /\ messageCount = 0
    /\ upload = IdleUpload
    /\ ui = IdleUi

\* Variant: a response that arrives after its attempt timed out is cached.
LateResultCached(cache, useCache, text, outcome) ==
    IF useCache /\ outcome \in {"ok", "nonFinite", "wrongDim"}
    THEN CacheSet(cache, generateCacheKey(text), ResponseVector(text, outcome))
    ELSE cache

\* lines 91-96: the attempt's Promise.race was settled by the timeout timer,
\* so what embedContent settles with afterwards goes nowhere: lines 98-115
\* are not run for it
LateResult(cache, useCache, text, outcome) == cache

\* embedContent of an attempt of invocation p that timed out settles.
LateResponse(p, outcome) ==
    /\ Quiet
    /\ \/ calls[p].lastOutcome = "timeout"
       \/ calls[p].lastError = AttemptError(calls[p].text, "timeout")
    /\ embeddingCache' =
           LateResult(embeddingCache, calls[p].useCache, calls[p].text, outcome)
    /\ UNCHANGED <<now, lastRequestTime, calls, spawn, batch, seqBatch,
                   cancelRequested, store, chunker, search, chat, conversationVars,
                   upload, ui>>

Next ==
    \/ \E p \in Callers, t \in Texts, uc \in BOOLEAN, mr \in 0..MaxRetries :
            Invoke(p, t, uc, mr)
    \/ CallStep
    \/ \E p \in Callers, o \in Outcomes : LateResponse(p, o)

Spec == Init /\ [][Next]_vars

\* ----------------------------------------------------- generateQueryEmbedding
\* generateQueryEmbedding lines 319-329, called by a search or chat request
\* (queries are taken trimmed and in lower case; the empty query is text 0;
\* up to a renaming of the queries, the first new one is 1, the next is 2, ...)
QueryInvoke(p, query) ==
    /\ Quiet
    /\ calls[p].pc = "idle"
    /\ \A q \in 1..(p - 1) : calls[q].pc # "idle"
    /\ \A t \in 1..(query - 1) : \E q \in 1..(p - 1) : calls[q].text = t
    /\ IF query = BlankText
       THEN /\ calls' = [calls EXCEPT ![p] =
                            [IdleCall EXCEPT !.pc = "done", !.owner = "direct",
                                             !.result = InvalidQueryError]]
            /\ UNCHANGED <<embeddingCache, lastRequestTime, spawn, batch, seqBatch>>
       ELSE Start(p, query, TRUE, MaxRetries, "direct", 0, <<>>)
    /\ UNCHANGED <<now, cancelRequested, store, chunker, search, chat, conversationVars, upload, ui>>

NextQuery ==
    \/ \E p \in Requests, query \in Texts : QueryInvoke(p, query)
    \/ CallStep

SpecQuery == Init /\ [][NextQuery]_vars

\* ------------------------------------------------- generateBatchEmbeddings
\* Every texts array of at most n elements, up to a renaming of the non-blank
\* texts: the first text of the array that is new is text 1, the next is 2, ...
TextArrays(n) ==
    {texts \in UNION {[1..k -> Texts] : k \in 0..n} :
        \A i \in 1..Len(texts), t \in 1..NumTexts :
            t < texts[i] => \E j \in 1..(i - 1) : texts[j] = t}

\* generateBatchEmbeddings lines 140-152: validation, then the first sub-batch
BatchInvoke(texts, retries, callbackThrows) ==
    /\ Quiet
    /\ batch.pc = "idle"
    /\ IF Len(texts) = 0
       THEN /\ batch' = [IdleBatch EXCEPT !.pc = "thrown",
                            !.error = [kind |-> "error", attempts |-> 0,
                                       msg |-> "Invalid texts array for batch embedding"]]
            /\ UNCHANGED spawn
       ELSE /\ batch' = [IdleBatch EXCEPT !.pc = "awaiting", !.texts = texts,
                                          !.callbackThrows = callbackThrows]
            /\ spawn' = SubBatch(texts, 0, retries)
    /\ UNCHANGED <<now, embeddingCache, lastRequestTime, calls, seqBatch,
                   cancelRequested, store, chunker, search, chat, conversationVars, upload, ui>>

\* insertVectors (pinecone.js lines 119-157) on the chunks whose texts were
\* embedded: vector idx takes embeddings[idx] and chunkIndex idx
InsertVectors ==
    /\ Quiet
    /\ batch.pc = "returned"
    /\ IF Len(batch.texts) # Len(batch.embeddings)
       THEN batch' = [batch EXCEPT !.pc = "insertFailed"] /\ UNCHANGED store
       ELSE /\ store' = [idx \in 1..Len(batch.texts) |->
                            [id |-> idx - 1, values |-> batch.embeddings[idx],
                             chunkText |-> batch.texts[idx], chunkIndex |-> idx - 1]]
            /\ batch' = [batch EXCEPT !.pc = "stored"]
    /\ UNCHANGED <<now, embeddingCache, lastRequestTime, calls, spawn, seqBatch,
                   cancelRequested, chunker, search, chat, conversationVars, upload, ui>>

\* The caller's deadline passes or its cancellation signal fires while a batch
\* call is running. Neither batch function takes or reads such a signal.
CallerCancel ==
    /\ Quiet
    /\ ~cancelRequested
    /\ batch.pc = "awaiting" \/ seqBatch.pc = "awaiting"
    /\ cancelRequested' = TRUE
    /\ UNCHANGED <<now, embeddingCache, lastRequestTime, calls, spawn, batch,
                   seqBatch, store, chunker, search, chat, conversationVars, upload, ui>>

NextBatch ==
    \/ \E texts \in TextArrays(MaxBatchLen), callbackThrows \in BOOLEAN :
            BatchInvoke(texts, MaxRetries, callbackThrows)
    \/ Spawn
    \/ InsertVectors
    \/ CallerCancel
    \/ CallStep

SpecBatch == Init /\ [][NextBatch]_vars

\* ------------------------------------------ generateBatchWithErrorHandling
\* lines 339-353: validation, then the first awaited generateEmbedding
SeqInvoke(texts, retries, callbackThrows) ==
    /\ Quiet
    /\ seqBatch.pc = "idle"
    /\ IF Len(texts) = 0
       THEN seqBatch' = [IdleSeqBatch EXCEPT !.pc = "thrown"] /\ UNCHANGED spawn
       ELSE /\ seqBatch' = [IdleSeqBatch EXCEPT !.pc = "awaiting", !.texts = texts,
                                                !.callbackThrows = callbackThrows]
            /\ spawn' = <<[slot |-> 1, text |-> texts[1], maxRetries |-> retries,
                           owner |-> "seq", index |-> 0]>>
    /\ UNCHANGED <<now, embeddingCache, lastRequestTime, calls, batch,
                   cancelRequested, store, chunker, search, chat, conversationVars, upload, ui>>

NextSeq ==
    \/ \E texts \in TextArrays(MaxBatchLen), callbackThrows \in BOOLEAN :
            SeqInvoke(texts, MaxRetries, callbackThrows)
    \/ Spawn
    \/ CallerCancel
    \/ CallStep

SpecSeq == Init /\ [][NextSeq]_vars

\* ------------------------------------------------------------------ chunkText
NextChunk ==
    \/ \E doc \in Documents, size \in ChunkSizes, overlap \in Overlaps,
          preserve \in BOOLEAN, throws \in BOOLEAN :
            ChunkInvoke(doc, size, overlap, preserve, throws)
    \/ SentenceStep
    \/ SentenceFinish
    \/ WordStep
    \/ WordFinish
    \/ ChunkThrow

SpecChunk == Init /\ [][NextChunk]_vars

\* ------------------------------------------------------ upload route, POST /
\* The cleaned texts the route hands to chunkText: up to two sentences.
UploadDocuments == UNION {[1..k -> SentenceKinds] : k \in 1..2}

\* validateChunk (chunk.js lines 330-354); the words of a document are taken
\* to be alphanumeric and the spaces between them are its other characters
validateChunk(chunk) ==
    LET length == ChunkLength(0, chunk.text) - 1
        alphanumeric == Sum([j \in 1..Len(chunk.text) |->
                                chunk.text[j].len - (chunk.text[j].w - 1)])
    IN  /\ chunk.text # <<>>
        /\ ~(length < 20)
        /\ ~(chunk.tokenCount < 10)
        /\ ~(2 * alphanumeric < length)

\* upload.js lines 176-190: the text is chunked in sentence mode
UploadInvoke(doc, chunkSize, overlap, throws) ==
    /\ upload.pc = "idle"
    /\ ChunkStart(doc, chunkSize, overlap, TRUE, throws)
    /\ upload' = [upload EXCEPT !.pc = "processing", !.file = "temp"]
    /\ UNCHANGED <<now, embeddingCache, lastRequestTime, calls, spawn, batch, seqBatch,
                   cancelRequested, store, search, chat, conversationVars, ui>>

\* upload.js lines 192-205: const texts = chunks.map(chunk => chunk.text), and
\* generateBatchEmbeddings(texts, <a callback that logs>); the text of chunk k
\* is text k
UploadEmbed ==
    /\ chunker.pc = "done"
    /\ chunker.chunks # <<>>
    /\ BatchInvoke([k \in 1..Len(chunker.chunks) |-> k], MaxRetries, FALSE)

\* insertVectors upserts its vectors in batches of this many (100 in the
\* program)
upsertBatchSize == 1

UploadFrame ==
    UNCHANGED <<now, embeddingCache, lastRequestTime, calls, spawn, batch, seqBatch,
                cancelRequested, chunker, search, chat, conversationVars, ui>>

\* the vector insertVectors prepares for chunk idx (pinecone.js lines 119-141)
PreparedVector(idx) ==
    [id |-> idx - 1, values |-> batch.embeddings[idx],
     chunkText |-> batch.texts[idx], chunkIndex |-> idx - 1]

\* upload.js lines 206-227 and pinecone.js lines 98-141: the embeddings are
\* there, insertDocument returns the new document id, insertVectors checks its
\* arguments and prepares the vectors
UploadInsert ==
    /\ Quiet
    /\ upload.pc = "processing"
    /\ batch.pc = "returned"
    /\ upload' = [upload EXCEPT
                    !.documentId = "doc",
                    !.pc = IF Len(batch.texts) # Len(batch.embeddings)
                           THEN "caught" ELSE "upserting"]
    /\ UNCHANGED store
    /\ UploadFrame

\* pinecone.js lines 143-152 and upload.js lines 227-249: one
\* await index.upsert(batch) settles; after the last one the temporary file is
\* unlinked and the handler answers
UpsertSettles(outcome) ==
    /\ Quiet
    /\ upload.pc = "upserting"
    /\ IF outcome = "ok"
       THEN LET upto == Min(Len(store) + upsertBatchSize, Len(batch.texts))
            IN  /\ store' = store \o [k \in 1..(upto - Len(store)) |->
                                        PreparedVector(Len(store) + k)]
                /\ upload' = IF upto = Len(batch.texts)
                             THEN [upload EXCEPT !.pc = "responded",
                                                 !.file = "deleted", !.status = 200]
                             ELSE upload
       ELSE /\ upload' = [upload EXCEPT !.pc = "caught"]
            /\ UNCHANGED store
    /\ UploadFrame

\* upload.js lines 251-275, the catch: when the document id exists,
\* deleteDocument of ../db/pgvector is called, which deletes rows of the
\* PostgreSQL tables (or throws, which is logged); the index insertVectors
\* wrote to is not touched. The temporary file is unlinked and the handler
\* answers 500. The handler gets here when generateBatchEmbeddings rejected
\* or insertVectors threw.
UploadCatch ==
    /\ Quiet
    /\ \/ upload.pc = "caught"
       \/ upload.pc = "processing" /\ batch.pc = "thrown"
    /\ upload' = [upload EXCEPT !.pc = "responded", !.file = "deleted",
                                !.status = 500]
    /\ UNCHANGED store
    /\ UploadFrame

NextUpload ==
    \/ \E doc \in UploadDocuments, size \in ChunkSizes, overlap \in Overlaps,
          throws \in BOOLEAN :
            UploadInvoke(doc, size, overlap, throws)
    \/ SentenceStep
    \/ SentenceFinish
    \/ ChunkThrow
    \/ UploadEmbed
    \/ Spawn
    \/ UploadInsert
    \/ \E outcome \in {"ok", "error"} : UpsertSettles(outcome)
    \/ UploadCatch
    \/ CallStep

SpecUpload == Init /\ [][NextUpload]_vars

\* ------------------------------------------------------- POST /api/search
\* the largest topK the search route accepts
MaxAllowedTopK == 100

\* topK values a request carries: none too small to be rejected, the small
\* ones, and one over the limit
TopKs == (0..MaxTopK) \cup {MaxAllowedTopK + 1}

\* search.js lines 24-41 and 50: the handler up to its first await
SearchInvoke(query, topK, threshold) ==
    /\ Quiet
    /\ search.pc = "idle"
    /\ calls[1].pc = "idle"
    /\ LET request == [IdleSearch EXCEPT !.route = "search", !.query = query,
                                         !.topK = topK, !.threshold = threshold]
       IN  IF query = BlankText
           THEN /\ search' = [request EXCEPT !.pc = "responded", !.status = 400,
                                 !.error = "Valid search query is required"]
                /\ UNCHANGED <<embeddingCache, lastRequestTime, calls, spawn, batch,
                               seqBatch>>
           ELSE IF topK < 1 \/ topK > MaxAllowedTopK
           THEN /\ search' = [request EXCEPT !.pc = "responded", !.status = 400,
                                 !.error = "topK must be between 1 and 100"]
                /\ UNCHANGED <<embeddingCache, lastRequestTime, calls, spawn, batch,
                               seqBatch>>
           ELSE /\ search' = [request EXCEPT !.pc = "embedding"]
                /\ Start(1, query, TRUE, MaxRetries, "direct", 0, <<>>)
    /\ UNCHANGED <<now, cancelRequested, store, chunker, chat, conversationVars, upload, ui>>

\* search.js lines 50-86: the query embedding settles, searchSimilarVectors
\* queries the index and the response is sent
SearchContinue ==
    /\ Quiet
    /\ search.pc = "embedding"
    /\ search.route = "search"
    /\ calls[1].pc = "done"
    /\ IF calls[1].result.kind = "error"
       THEN search' = [search EXCEPT !.pc = "responded", !.status = 500,
                                     !.error = "Search failed"]
       ELSE \/ search' = [search EXCEPT !.pc = "responded", !.status = 500,
                                        !.queried = TRUE,
                                        !.error = "Search failed"]
            \/ \E matches \in IndexQuery(search.topK) :
                   search' = [search EXCEPT
                                 !.pc = "responded", !.status = 200,
                                 !.queried = TRUE, !.matches = matches,
                                 !.results = searchSimilarVectors(matches,
                                                                  search.threshold)]
    /\ UNCHANGED <<now, embeddingCache, lastRequestTime, calls, spawn, batch,
                   seqBatch, cancelRequested, store, chunker, chat, conversationVars, upload, ui>>

NextSearch ==
    \/ \E query \in 0..1, topK \in TopKs, threshold \in Scores :
            SearchInvoke(query, topK, threshold)
    \/ SearchContinue
    \/ QueryInvoke(2, 1)
    \/ CallStep

SpecSearch == Init /\ [][NextSearch]_vars

\* ------------------------------------------------ POST /api/search/hybrid
\* Weights are in tenths: 1.0 is 10. (The sum of the doubles nearest to two
\* decimals that add up to 1 is the double 1.0, so the comparison of line 119
\* is exact on them.)
WeightOne == 10

Weights == {3, 5, 7}

\* Variant: the weights are not checked.
WeightsRejectedNever(vectorWeight, keywordWeight) == FALSE

\* search.js line 119: vectorWeight + keywordWeight !== 1.0
WeightsRejected(vectorWeight, keywordWeight) ==
    vectorWeight + keywordWeight # WeightOne

\* search.js lines 103-131: the handler up to its first await
HybridInvoke(query, topK, vectorWeight, keywordWeight) ==
    /\ Quiet
    /\ search.pc = "idle"
    /\ calls[1].pc = "idle"
    /\ LET request == [IdleSearch EXCEPT !.route = "hybrid", !.query = query,
                                         !.topK = topK,
                                         !.vectorWeight = vectorWeight,
                                         !.keywordWeight = keywordWeight]
       IN  IF query = BlankText
           THEN /\ search' = [request EXCEPT !.pc = "responded", !.status = 400,
                                 !.error = "Valid search query is required"]
                /\ UNCHANGED <<embeddingCache, lastRequestTime, calls, spawn, batch,
                               seqBatch>>
           ELSE IF WeightsRejected(vectorWeight, keywordWeight)
           THEN /\ search' = [request EXCEPT !.pc = "responded", !.status = 400,
                                 !.error = "vectorWeight + keywordWeight must equal 1.0"]
                /\ UNCHANGED <<embeddingCache, lastRequestTime, calls, spawn, batch,
                               seqBatch>>
           ELSE /\ search' = [request EXCEPT !.pc = "embedding"]
                /\ Start(1, query, TRUE, MaxRetries, "direct", 0, <<>>)
    /\ UNCHANGED <<now, cancelRequested, store, chunker, chat, conversationVars, upload, ui>>

\* the default threshold of pinecone.js hybridSearch: 0.75
HybridThreshold == 75000

\* search.js lines 131-172. The handler calls
\* hybridSearch(query, queryEmbedding, {topK, vectorWeight, keywordWeight, filters})
\* and the function it imports is pinecone.js
\* hybridSearch(queryEmbedding, keywords = [], topK = 10, threshold = 0.75):
\* the query string is taken as the vector, the embedding as the keywords and
\* the options object as topK. index.query gets a request that is not well
\* formed (the string as vector, topK * 2 = NaN). When a match at or above the
\* threshold comes back, keywords.some calls toLowerCase on a number and
\* throws; the handler's catch answers 500. With no such match the filter has
\* nothing to look at and the handler answers 200 with no results.
HybridContinue ==
    /\ Quiet
    /\ search.pc = "embedding"
    /\ search.route = "hybrid"
    /\ calls[1].pc = "done"
    /\ IF calls[1].result.kind = "error"
       THEN search' = [search EXCEPT !.pc = "responded", !.status = 500,
                                     !.error = "Hybrid search failed"]
       ELSE \E answer \in IndexQueryMalformed :
               IF answer.rejected
               THEN search' = [search EXCEPT !.pc = "responded", !.status = 500,
                                             !.queried = TRUE,
                                             !.error = "Hybrid search failed"]
               ELSE IF searchSimilarVectors(answer.matches, HybridThreshold) # <<>>
               THEN search' = [search EXCEPT !.pc = "responded", !.status = 500,
                                             !.queried = TRUE,
                                             !.matches = answer.matches,
                                             !.error = "Hybrid search failed"]
               ELSE search' = [search EXCEPT !.pc = "responded", !.status = 200,
                                             !.queried = TRUE,
                                             !.matches = answer.matches,
                                             !.results = <<>>]
    /\ UNCHANGED <<now, embeddingCache, lastRequestTime, calls, spawn, batch,
                   seqBatch, cancelRequested, store, chunker, chat, conversationVars, upload, ui>>

NextHybrid ==
    \/ \E query \in 0..1, topK \in {MaxTopK}, vectorWeight \in Weights,
          keywordWeight \in Weights :
            HybridInvoke(query, topK, vectorWeight, keywordWeight)
    \/ HybridContinue
    \/ QueryInvoke(2, 1)
    \/ CallStep

SpecHybrid == Init /\ [][NextHybrid]_vars

\* ----------------------------------------------------------- POST /api/chat
\* the threshold the chat handler passes to searchSimilarVectors: 0.3
ChatThreshold == 30000

\* let retries = 3
ChatRetries == 3

\* buildSystemPrompt (preprocess.js lines 793-813): the context text is one
\* entry `[${index + 1}] ${chunk.chunkText}` per chunk, joined by blank lines
buildSystemPrompt(contextChunks) ==
    [index \in 1..Len(contextChunks) |->
        [marker |-> index, text |-> contextChunks[index].chunkText]]

\* Variant: the citations are numbered from 0.
CitationsFromZero(contextChunks) ==
    [index \in 1..Len(contextChunks) |->
        [index |-> index - 1,
         documentName |-> contextChunks[index].filename,
         chunkId |-> contextChunks[index].id,
         similarity |-> toFixed4(contextChunks[index].similarity),
         snippet |-> contextChunks[index].chunkText]]

\* preprocess.js lines 521-527: contextChunks.map((chunk, index) => ({...}))
\* (index is 0-based there, 1-based here; the snippet is the start of the text)
Citations(contextChunks) ==
    [index \in 1..Len(contextChunks) |->
        [index |-> index,
         documentName |-> contextChunks[index].filename,
         chunkId |-> contextChunks[index].id,
         similarity |-> toFixed4(contextChunks[index].similarity),
         snippet |-> contextChunks[index].chunkText]]

\* preprocess.js lines 403-433: the handler up to its first await
ChatInvoke(message, topK, includeContext) ==
    /\ Quiet
    /\ chat.pc = "idle"
    /\ calls[1].pc = "idle"
    /\ LET request == [IdleChat EXCEPT !.message = message, !.topK = topK,
                                       !.includeContext = includeContext]
       IN  IF message = BlankText
           THEN /\ chat' = [request EXCEPT !.pc = "responded", !.status = 400]
                /\ UNCHANGED <<embeddingCache, lastRequestTime, calls, spawn, batch,
                               seqBatch>>
           ELSE IF includeContext
           THEN /\ chat' = [request EXCEPT !.pc = "embedding"]
                /\ Start(1, message, TRUE, MaxRetries, "direct", 0, <<>>)
           ELSE /\ chat' = [request EXCEPT !.pc = "sending",
                                           !.retries = ChatRetries]
                /\ UNCHANGED <<embeddingCache, lastRequestTime, calls, spawn, batch,
                               seqBatch>>
    /\ UNCHANGED <<now, cancelRequested, store, chunker, search, conversationVars, upload, ui>>

\* preprocess.js lines 431-489: the query embedding settles, the index is
\* queried with the request's topK, the prompt is built from every chunk
\* searchSimilarVectors returned, and the first sendMessage is started
ChatRetrieve ==
    /\ Quiet
    /\ chat.pc = "embedding"
    /\ calls[1].pc = "done"
    /\ IF calls[1].result.kind = "error" \/ chat.topK < 1
       THEN chat' = [chat EXCEPT !.pc = "responded", !.status = 500]
       ELSE \/ chat' = [chat EXCEPT !.pc = "responded", !.status = 500]
            \/ \E matches \in IndexQuery(chat.topK) :
                 LET contextChunks == searchSimilarVectors(matches, ChatThreshold)
                 IN  chat' = [chat EXCEPT
                                 !.pc = "sending", !.retries = ChatRetries,
                                 !.contextChunks = contextChunks,
                                 !.context =
                                    IF Len(contextChunks) > 0
                                    THEN buildSystemPrompt(contextChunks)
                                    ELSE <<>>]
    /\ UNCHANGED <<now, embeddingCache, lastRequestTime, calls, spawn, batch,
                   seqBatch, cancelRequested, store, chunker, search, conversationVars, upload, ui>>

\* preprocess.js lines 486-543: one chat.sendMessage settles. A 503 with
\* retries left is followed, two seconds later, by the next sendMessage; any
\* other error goes to the handler's catch; a response is answered with the
\* citations of all of contextChunks.
ChatSend(outcome) ==
    /\ Quiet
    /\ chat.pc = "sending"
    /\ IF outcome = "ok"
       THEN chat' = [chat EXCEPT !.pc = "responded", !.status = 200,
                                 !.contextUsed = chat.includeContext,
                                 !.contextChunksCount = Len(chat.contextChunks),
                                 !.citations = Citations(chat.contextChunks)]
       ELSE IF outcome = "503" /\ chat.retries - 1 > 0
       THEN chat' = [chat EXCEPT !.retries = chat.retries - 1]
       ELSE chat' = [chat EXCEPT !.pc = "responded", !.status = 500,
                                 !.retries = chat.retries - 1]
    /\ UNCHANGED <<now, embeddingCache, lastRequestTime, calls, spawn, batch,
                   seqBatch, cancelRequested, store, chunker, search, conversationVars, upload, ui>>

NextChat ==
    \/ \E message \in 0..1, topK \in 0..MaxTopK, includeContext \in BOOLEAN :
            ChatInvoke(message, topK, includeContext)
    \/ ChatRetrieve
    \/ QueryInvoke(2, 1)
    \/ \E outcome \in {"ok", "503", "error"} : ChatSend(outcome)
    \/ CallStep

SpecChat == Init /\ [][NextChat]_vars

\* --------------------------------- POST /api/chat and POST /api/chat/stream
\* Several requests on the conversation store; a request names no conversation
\* or one the Map holds when it arrives. The retrieval of the context
\* (generateQueryEmbedding and searchSimilarVectors, followed step by step in
\* SpecChat) is one await here that yields chunks or throws.
ConversationFrame ==
    UNCHANGED <<now, embeddingCache, lastRequestTime, calls, spawn, batch, seqBatch,
                cancelRequested, store, chunker, search, chat, upload, ui>>

Finished(request, result) ==
    [IdleRequest EXCEPT !.result = IF result = "failed" THEN "failed" ELSE "none"]

\* preprocess.js lines 505-518 and 657-669: the entry is created when the Map
\* has none, the user message and the answer are pushed, the array is cut
UpdatedHistory(map, request) ==
    MapSet(map, newConversationId(map, request),
           TrimHistory(HistoryOf(map, newConversationId(map, request))
                        \o <<UserMessage(request.message),
                             AssistantMessage(request.message)>>))

\* the same two pushes on the record of everything pushed
UpdatedAppended(map, request) ==
    MapSet(map, newConversationId(map, request),
           HistoryOf(map, newConversationId(map, request))
                \o <<UserMessage(request.message),
                     AssistantMessage(request.message)>>)

\* lines 403-433 and 569-596: the handler up to its first await
ChatRequestInvoke(r, route, conversationId, blank, includeContext) ==
    /\ chatRequests[r].pc = "idle"
    /\ \A q \in ChatSlots : q < r => chatRequests[q].pc # "idle"
    /\ IF blank
       THEN /\ chatRequests' = [chatRequests EXCEPT ![r] =
                    Finished(IdleRequest, "rejected")]
            /\ UNCHANGED messageCount
       ELSE /\ messageCount < MaxMessages
            /\ conversationId = NoConversation
                    => Cardinality(DOMAIN conversationHistory) < MaxConversations
            /\ messageCount' = messageCount + 1
            /\ chatRequests' = [chatRequests EXCEPT ![r] =
                    [IdleRequest EXCEPT
                        !.pc = IF includeContext THEN "retrieving" ELSE "sending",
                        !.route = route,
                        !.conversationId = conversationId,
                        !.message = r,
                        !.retries = IF route = "chat" THEN ChatRetries ELSE 0]]
    /\ UNCHANGED <<conversationHistory, appended>>
    /\ ConversationFrame

\* lines 431-434 and 592-596: the retrieval settles
RetrievalSettles(r, outcome) ==
    /\ chatRequests[r].pc = "retrieving"
    /\ chatRequests' = [chatRequests EXCEPT ![r] =
            IF outcome = "ok"
            THEN [chatRequests[r] EXCEPT !.pc = "sending"]
            ELSE Finished(chatRequests[r], "failed")]
    /\ UNCHANGED <<conversationHistory, appended, messageCount>>
    /\ ConversationFrame

\* lines 486-543: chat.sendMessage of a plain request settles
SendSettles(r, outcome) ==
    /\ chatRequests[r].pc = "sending"
    /\ chatRequests[r].route = "chat"
    /\ chatRequests' = [chatRequests EXCEPT ![r] =
            IF outcome = "ok"
            THEN Finished(chatRequests[r], "answered")
            ELSE IF outcome = "503" /\ chatRequests[r].retries - 1 > 0
            THEN [chatRequests[r] EXCEPT !.retries = chatRequests[r].retries - 1]
            ELSE Finished(chatRequests[r], "failed")]
    /\ IF HistoryUpdateReached(outcome)
       THEN /\ conversationHistory' = UpdatedHistory(conversationHistory,
                                                     chatRequests[r])
            /\ appended' = UpdatedAppended(appended, chatRequests[r])
       ELSE UNCHANGED <<conversationHistory, appended>>
    /\ UNCHANGED messageCount
    /\ ConversationFrame

\* line 630: chat.sendMessageStream of a streaming request settles
StreamStarts(r, outcome) ==
    /\ chatRequests[r].pc = "sending"
    /\ chatRequests[r].route = "stream"
    /\ chatRequests' = [chatRequests EXCEPT ![r] =
            IF outcome = "ok"
            THEN [chatRequests[r] EXCEPT !.pc = "streaming"]
            ELSE Finished(chatRequests[r], "failed")]
    /\ UNCHANGED <<conversationHistory, appended, messageCount>>
    /\ ConversationFrame

\* lines 635-643: the stream yields a chunk, which is written to the client
StreamChunk(r) ==
    /\ chatRequests[r].pc = "streaming"
    /\ chatRequests[r].streamed < MaxStreamChunks
    /\ chatRequests' = [chatRequests EXCEPT ![r].streamed = @ + 1]
    /\ UNCHANGED <<conversationHistory, appended, messageCount>>
    /\ ConversationFrame

\* lines 635-678: the stream ends, or throws
StreamEnds(r, outcome) ==
    /\ chatRequests[r].pc = "streaming"
    /\ chatRequests' = [chatRequests EXCEPT ![r] =
            Finished(chatRequests[r],
                     IF outcome = "ok" THEN "answered" ELSE "failed")]
    /\ IF HistoryUpdateReached(outcome)
       THEN /\ conversationHistory' = UpdatedHistory(conversationHistory,
                                                     chatRequests[r])
            /\ appended' = UpdatedAppended(appended, chatRequests[r])
       ELSE UNCHANGED <<conversationHistory, appended>>
    /\ UNCHANGED messageCount
    /\ ConversationFrame

\* DELETE /api/chat/history/:conversationId (lines 719-743)
DeleteHistory(id) ==
    /\ conversationHistory' = MapDelete(conversationHistory, {id})
    /\ appended' = MapDelete(appended, {id})
    /\ UNCHANGED <<chatRequests, messageCount>>
    /\ ConversationFrame

\* cleanupOldConversations (lines 825-840), run every hour: the conversations
\* whose last message is older than 24 hours are deleted; ids are those
cleanupOldConversations(ids) ==
    /\ ids # {}
    /\ \A id \in ids : Len(conversationHistory[id]) # 0
    /\ conversationHistory' = MapDelete(conversationHistory, ids)
    /\ appended' = MapDelete(appended, ids)
    /\ UNCHANGED <<chatRequests, messageCount>>
    /\ ConversationFrame

NextConversation ==
    \/ \E r \in ChatSlots, route \in {"chat", "stream"},
          id \in {NoConversation} \cup DOMAIN conversationHistory,
          blank \in BOOLEAN, includeContext \in BOOLEAN :
            ChatRequestInvoke(r, route, id, blank, includeContext)
    \/ \E r \in ChatSlots, outcome \in {"ok", "error"} : RetrievalSettles(r, outcome)
    \/ \E r \in ChatSlots, outcome \in {"ok", "503", "error"} : SendSettles(r, outcome)
    \/ \E r \in ChatSlots, outcome \in {"ok", "error"} : StreamStarts(r, outcome)
    \/ \E r \in ChatSlots : StreamChunk(r)
    \/ \E r \in ChatSlots, outcome \in {"ok", "error"} : StreamEnds(r, outcome)
    \/ \E id \in DOMAIN conversationHistory : DeleteHistory(id)
    \/ \E ids \in SUBSET DOMAIN conversationHistory : cleanupOldConversations(ids)

SpecConversation == Init /\ [][NextConversation]_vars

\* ------------------------------------------------------ frontend/js/chat.js
UiFrame ==
    UNCHANGED <<now, embeddingCache, lastRequestTime, calls, spawn, batch, seqBatch,
                cancelRequested, store, chunker, search, chat, conversationVars,
                upload>>

\* an element of chatHistory[id].messages; message is the user message the
\* entry is, or is the answer to
ChatEntry(message, isUser, isError) ==
    [message |-> message, isUser |-> isUser, isError |-> isError]

\* saveMessageToCurrentChat lines 185-195
saveMessageToCurrentChat(u, entry) ==
    IF u.currentChatId \notin DOMAIN u.chatHistory THEN u.chatHistory
    ELSE [u.chatHistory EXCEPT ![u.currentChatId] = Append(@, entry)]

\* loadChatSession lines 163-183
loadChatSession(u, id) ==
    IF id \notin DOMAIN u.chatHistory THEN u
    ELSE [u EXCEPT !.currentChatId = id, !.conversationId = "null"]

\* createNewChatSession lines 53-65
createNewChatSession(u) ==
    LET id == u.created + 1
    IN  loadChatSession(
            [u EXCEPT !.chatHistory = [k \in DOMAIN @ \cup {id} |->
                                          IF k = id THEN <<>> ELSE @[k]],
                      !.currentChatId = id,
                      !.created = id],
            id)

\* remaining[0]: Object.keys lists the sessions in the order they were added
FirstSession(history) == CHOOSE id \in DOMAIN history : \A k \in DOMAIN history : id <= k

\* sendMessage lines 222-264, up to await fetch: a non-blank message while no
\* request is being processed (a blank one, or one sent while isProcessing, is
\* answered with a notification and changes nothing)
SendMessage ==
    /\ ~ui.isProcessing
    /\ ui.sent < MaxSent
    /\ LET message == ui.sent + 1
       IN  ui' = [ui EXCEPT
                    !.isProcessing = TRUE,
                    !.chatHistory = saveMessageToCurrentChat(
                                        ui, ChatEntry(message, TRUE, FALSE)),
                    !.inFlight = @ \cup {[message |-> message,
                                          session |-> ui.currentChatId]},
                    !.sent = message]
    /\ UiFrame

\* sendMessage lines 266-333, from the settling of fetch: the answer is saved
\* on success; an error answer, a rejected fetch or success: false goes to the
\* catch, which saves an error message. error.retryable is read from
\* response.clone().json() after response.json() has consumed the body; clone
\* then throws, the inner catch swallows that, and the retry timer of lines
\* 319-324 is never set.
FetchSettles(request, outcome) ==
    /\ request \in ui.inFlight
    /\ ui' = [ui EXCEPT
                 !.chatHistory = saveMessageToCurrentChat(
                                     ui, ChatEntry(request.message, FALSE, outcome # "ok")),
                 !.conversationId = IF outcome = "ok" THEN "conv" ELSE @,
                 !.isProcessing = FALSE,
                 !.inFlight = @ \ {request}]
    /\ UiFrame

\* a click on another session of the list (lines 93-99)
LoadChatSession(id) ==
    /\ id \in DOMAIN ui.chatHistory
    /\ id # ui.currentChatId
    /\ ui' = loadChatSession(ui, id)
    /\ UiFrame

\* a click on the New Chat button (lines 574-580)
CreateNewChatSession ==
    /\ ui.created < MaxSessions
    /\ ui' = createNewChatSession(ui)
    /\ UiFrame

\* deleteChatSession lines 25-41, confirmed by the user
DeleteChatSession(id) ==
    /\ id \in DOMAIN ui.chatHistory
    /\ LET remaining == [k \in DOMAIN ui.chatHistory \ {id} |-> ui.chatHistory[k]]
           u == [ui EXCEPT !.chatHistory = remaining]
       IN  IF id # ui.currentChatId THEN ui' = u
           ELSE IF DOMAIN remaining # {} THEN ui' = loadChatSession(u, FirstSession(remaining))
           ELSE /\ ui.created < MaxSessions
                /\ ui' = createNewChatSession(u)
    /\ UiFrame

NextUI ==
    \/ SendMessage
    \/ \E request \in ui.inFlight, outcome \in {"ok", "error"} :
            FetchSettles(request, outcome)
    \/ \E id \in 1..MaxSessions : LoadChatSession(id)
    \/ CreateNewChatSession
    \/ \E id \in 1..MaxSessions : DeleteChatSession(id)

SpecUI == Init /\ [][NextUI]_vars

\* =================================================================== claims
CacheCount(cache, key) == Cardinality({i \in 1..Len(cache) : cache[i].key = key})

\* C1. A generateEmbedding call made with useCache on while the cache holds an
\* entry for its text returns at once with exactly the cached vector, which an
\* earlier successful call for the same text returned; no provider call is
\* dispatched and RATE_LIMIT.lastRequestTime is left unchanged.
C1_CachedCallIsIdempotent ==
    [][\A p \in Slots :
        ( /\ calls[p].pc = "idle"
          /\ calls'[p].pc # "idle"
          /\ calls'[p].text # BlankText
          /\ calls'[p].useCache
          /\ CacheHas(embeddingCache, generateCacheKey(calls'[p].text)) )
        => /\ calls'[p].pc = "done"
           /\ calls'[p].result =
                  CachePeek(embeddingCache, generateCacheKey(calls'[p].text))
           /\ \E q \in Slots \ {p} :
                  /\ calls[q].pc = "done"
                  /\ calls[q].text = calls'[p].text
                  /\ calls[q].sent >= 1
                  /\ calls[q].result = calls'[p].result
           /\ \A q \in Slots : calls'[q].sent = calls[q].sent
           /\ lastRequestTime' = lastRequestTime]_vars

\* C1 witness: a call has returned a vector without any provider attempt.
C1_Witness ==
    \E p \in Slots :
        /\ calls[p].pc = "done"
        /\ calls[p].sent = 0
        /\ calls[p].result.kind = "vector"

C3_PermanentFailureNotRetried ==
    [][\A p \in Slots :
        ( /\ calls[p].pc = "inFlight"
          /\ calls'[p].pc # "inFlight"
          /\ calls'[p].lastOutcome \in {"wrongDim", "permanent"} )
        => /\ calls'[p].pc = "done"
           /\ calls'[p].result.kind = "error"
           /\ calls'[p].sleeps = calls[p].sleeps]_vars

\* C4. Every provider call is dispatched at least minInterval after the
\* previous one (whose dispatch time RATE_LIMIT.lastRequestTime holds).
C4_DispatchesPaced ==
    [][\A p \in Slots :
        calls'[p].sent > calls[p].sent
        => (lastRequestTime = 0 \/ now - lastRequestTime >= minInterval)]_vars

\* C5. generateBatchWithErrorHandling does not throw for a non-empty texts
\* array; its result has one embeddings entry per text, null exactly at the
\* indices listed in errors, the embedding of texts[i] elsewhere, and
\* successCount + failureCount = texts.length.
C5_PartialFailureResult ==
    /\ (seqBatch.pc = "thrown" => seqBatch.texts = <<>>)
    /\ seqBatch.pc = "returned" =>
        LET n == Len(seqBatch.texts)
            failedAt == {seqBatch.errors[k].index : k \in 1..Len(seqBatch.errors)}
        IN  /\ Len(seqBatch.embeddings) = n
            /\ \A i \in 1..n :
                /\ (seqBatch.embeddings[i] = Null) <=> (i - 1 \in failedAt)
                /\ seqBatch.embeddings[i] # Null
                    => /\ seqBatch.embeddings[i].kind = "vector"
                       /\ seqBatch.embeddings[i].src = seqBatch.texts[i]
            /\ Len(seqBatch.errors) = Cardinality(failedAt)
            /\ seqBatch.failureCount = Len(seqBatch.errors)
            /\ seqBatch.successCount + seqBatch.failureCount = n

\* C6. Whenever generateBatchEmbeddings has returned, element i of its result
\* is the embedding of texts[i], and the vector insertVectors stores under
\* chunkIndex i is the embedding of chunk i.
C6_ResultsByIndex ==
    /\ batch.pc \in {"returned", "stored"} =>
        /\ Len(batch.embeddings) = Len(batch.texts)
        /\ \A i \in 1..Len(batch.texts) :
            /\ batch.embeddings[i].kind = "vector"
            /\ batch.embeddings[i].src = batch.texts[i]
    /\ batch.pc # "insertFailed"
    /\ \A idx \in 1..Len(store) :
        /\ store[idx].chunkIndex = idx - 1
        /\ store[idx].chunkText = batch.texts[idx]
        /\ store[idx].values.src = batch.texts[idx]

\* C6 witness: the vectors of a batch were stored although the second call of
\* its last sub-batch completed before the first, on different texts.
C6_Witness ==
    /\ batch.pc = "stored"
    /\ batch.order = <<2, 1>>
    /\ batch.texts[batch.i + 1] # batch.texts[batch.i + 2]

\* Two finished calls for the same text, one started while the other was
\* running, so that both missed the cache and went to the provider.
Raced(p, q) ==
    /\ p \in calls[q].peers
    /\ calls[p].pc = "done"
    /\ calls[q].pc = "done"
    /\ calls[p].text = calls[q].text
    /\ calls[p].sent >= 1
    /\ calls[q].sent >= 1

GoodVector(r) == r.kind = "vector" /\ r.len = expectedDimensions

C8_CancellationStopsBatch ==
    [][cancelRequested =>
        \A p \in Slots :
            /\ calls'[p].sent <= calls[p].sent
            /\ calls[p].pc = "idle" => calls'[p].pc = "idle"]_vars

\* C9. No vector with a non-finite value (or of the wrong length) is ever
\* returned to a caller, cached, or upserted to the vector store.
C9_OnlyFiniteVectors ==
    LET Checked(v) == v.kind = "vector" => (v.finite /\ v.len = expectedDimensions)
    IN  /\ \A p \in Slots : Checked(calls[p].result)
        /\ \A i \in 1..Len(embeddingCache) : Checked(embeddingCache[i].value)
        /\ \A i \in 1..Len(batch.embeddings) : Checked(batch.embeddings[i])
        /\ \A i \in 1..Len(store) : Checked(store[i].values)

\* C10. The chunks chunkText returns, in every mode, carry chunkIndex 0, 1,
\* 2, ... in the order of the returned array, with no gap and no repeat.
C10_ChunkIndexContiguous ==
    chunker.pc = "done" =>
        \A k \in 1..Len(chunker.chunks) : chunker.chunks[k].chunkIndex = k - 1

\* C10 witness: chunkText has returned at least three chunks.
C10_Witness ==
    /\ chunker.pc = "done"
    /\ Len(chunker.chunks) >= 3
    /\ chunker.preserveSentences

\* ------------------------------------------------------ chunk contents
\* The sentences of the document that a sequence of spans holds, in order.
RECURSIVE SpanUnits(_)
SpanUnits(spans) ==
    IF spans = <<>> THEN <<>>
    ELSE [j \in 1..(Head(spans).last - Head(spans).first + 1) |->
             Head(spans).first + j - 1] \o SpanUnits(Tail(spans))

\* What a returned chunk holds: sentence numbers of the document, or word
\* numbers when tokenBasedChunking built it.
ChunkUnits(chunk) ==
    IF chunker.path = "words"
    THEN [j \in 1..(chunk.text.hi - chunk.text.lo + 1) |-> chunk.text.lo + j - 1]
    ELSE SpanUnits(chunk.text)

\* The units of chunk k that the chunk before it does not already hold.
NewUnits(k) ==
    LET units == ChunkUnits(chunker.chunks[k])
        before == IF k = 1 THEN <<>> ELSE ChunkUnits(chunker.chunks[k - 1])
    IN  SelectSeq(units, LAMBDA u : \A j \in 1..Len(before) : before[j] # u)

RECURSIVE Reconstructed(_)
Reconstructed(k) == IF k = 0 THEN <<>> ELSE Reconstructed(k - 1) \o NewUnits(k)

\* C11. The chunks chunkText returns, concatenated in index order with each
\* chunk's overlap prefix removed, are the whole text: every sentence (every
\* word, in token mode) of the input, once and in order.
C11_ChunksReconstructText ==
    (chunker.pc = "done" /\ chunker.doc # <<>>) =>
        LET n == IF chunker.path = "words" THEN WordCount(chunker.doc)
                 ELSE Len(chunker.doc)
        IN  Reconstructed(Len(chunker.chunks)) = [u \in 1..n |-> u]

\* The sentences chunk k has in common with the chunk before it.
SharedSentences(k) ==
    LET prev == chunker.chunks[k - 1].text
    IN  SelectSeq(chunker.chunks[k].text,
                  LAMBDA sentence : \E j \in 1..Len(prev) : prev[j] = sentence)

ChunkOffset(chunk) ==
    IF chunker.path = "words"
    THEN IF chunk.text.lo = 1 THEN 0
         ELSE WordsLength(chunker.doc, 1, chunk.text.lo - 1) + 1
    ELSE IF chunk.text[1].first = 1 THEN 0
         ELSE TextLength(SubSeq(chunker.doc, 1, chunk.text[1].first - 1)) + 1

ChunkTextLength(chunk) ==
    IF chunker.path = "words"
    THEN WordsLength(chunker.doc, chunk.text.lo, chunk.text.hi)
    ELSE ChunkLength(0, chunk.text) - 1

\* C13. Every chunk chunkText returns starts at startPosition in the document
\* (where its first sentence or word, overlap included, begins) and
\* endPosition - startPosition is the length of its text.
C13_PositionsAreOffsets ==
    chunker.pc = "done" =>
        \A k \in 1..Len(chunker.chunks) :
            LET chunk == chunker.chunks[k]
            IN  /\ chunk.startPosition = ChunkOffset(chunk)
                /\ chunk.endPosition - chunk.startPosition = ChunkTextLength(chunk)

\* C14. For a text with a non-whitespace character chunkText returns at least
\* one chunk; when the text is shorter than the threshold, when no sentence
\* is detected, when the loop leaves no chunk, or when chunking throws, it
\* returns exactly one chunk, of index 0, holding the whole trimmed text.
C14_NeverEmptyForText ==
    (chunker.pc = "done" /\ chunker.doc # <<>>) =>
        /\ chunker.chunks # <<>>
        /\ ( \/ TextLength(chunker.doc) < ShortTextLength
             \/ /\ chunker.preserveSentences
                /\ tokenizeSentences(chunker.doc, chunker.throws) = <<>>
             \/ chunker.path \in {"empty", "caught"} )
           => /\ Len(chunker.chunks) = 1
              /\ chunker.chunks[1].chunkIndex = 0
              /\ chunker.chunks[1].text = <<Span(chunker.doc, 1, Len(chunker.doc))>>
              /\ chunker.chunks[1].endPosition = TextLength(chunker.doc)

\* C14 witness: a text over the threshold in which no sentence was detected
\* came back as one chunk.
C14_Witness ==
    /\ chunker.pc = "done"
    /\ chunker.path = "noSentences"
    /\ TextLength(chunker.doc) >= ShortTextLength
    /\ Len(chunker.chunks) = 1

\* C15. In the upload pipeline no chunk that fails the quality gate (under 20
\* characters, under 10 tokens, or less than half alphanumeric) is sent to the
\* embedding provider or written to the vector store.
C15_RejectedChunksNotEmbedded ==
    /\ \A p \in Slots :
        (calls[p].owner = "batch" /\ calls[p].sent >= 1)
        => validateChunk(chunker.chunks[calls[p].index + 1])
    /\ \A idx \in 1..Len(store) : validateChunk(chunker.chunks[idx])

\* C16. searchSimilarVectors returns at most topK results, each with a
\* similarity of at least the threshold, in descending similarity order; the
\* results are the index's matches with those under the threshold left out, in
\* the order the index gave them.
C16_SearchResultsBounded ==
    (search.route = "search" /\ search.pc = "responded" /\ search.status = 200)
    => /\ Len(search.results) <= search.topK
       /\ \A i \in 1..Len(search.results) :
            search.results[i].similarity >= search.threshold
       /\ \A i \in 1..(Len(search.results) - 1) :
            search.results[i].similarity >= search.results[i + 1].similarity
       /\ [i \in 1..Len(search.results) |-> search.results[i].id]
            = [i \in 1..Len(SelectSeq(search.matches,
                                LAMBDA m : m.score >= search.threshold)) |->
                    SelectSeq(search.matches,
                              LAMBDA m : m.score >= search.threshold)[i].id]

\* A search with topK 2 answered one result after the index's second match,
\* under the threshold, was left out.
C16_Witness ==
    /\ search.route = "search"
    /\ search.pc = "responded"
    /\ search.status = 200
    /\ search.topK = 2
    /\ Len(search.matches) = 2
    /\ Len(search.results) = 1
    /\ search.matches[2].score < search.threshold

\* C17. A hybrid search request whose vectorWeight + keywordWeight is not 1.0
\* is answered with an input error (status 400) without any embedding call and
\* without any query of the index; a request whose weights add up to 1.0 is
\* never answered with the weights error.
C17_WeightsMustSumToOne ==
    search.route = "hybrid"
    => /\ search.vectorWeight + search.keywordWeight # WeightOne
            => /\ search.pc = "responded"
               /\ search.status = 400
               /\ ~search.queried
               /\ \A p \in Slots : calls[p].pc = "idle"
               /\ lastRequestTime = 0
       /\ search.vectorWeight + search.keywordWeight = WeightOne
            => search.error # "vectorWeight + keywordWeight must equal 1.0"

\* A hybrid request with a valid query and weights 0.7 and 0.5 was rejected.
C17_Witness ==
    /\ search.route = "hybrid"
    /\ search.query # BlankText
    /\ search.vectorWeight = 7
    /\ search.keywordWeight = 5
    /\ search.status = 400

\* C18. A hybrid search whose query embedding was produced and whose index
\* answered with candidates is served (status 200), each result scored
\* vectorWeight x similarity + keywordWeight x lexical relevance with the
\* request's weights, the results in descending order of that score.
C18_HybridWeightedScore ==
    (/\ search.route = "hybrid"
     /\ search.pc = "responded"
     /\ search.queried
     /\ search.matches # <<>>)
    => /\ search.status = 200
       /\ \A i \in 1..Len(search.results) :
            search.results[i].hybridScore
                = search.vectorWeight * search.results[i].vectorScore
                    + search.keywordWeight * search.results[i].keywordScore
       /\ \A i \in 1..(Len(search.results) - 1) :
            search.results[i].hybridScore >= search.results[i + 1].hybridScore

\* the tokens of the chunk texts of a context
ContextTokens(context) ==
    Sum([i \in 1..Len(context) |-> context[i].text.tokens])

\* C19. The context of an answered chat request holds at most maxContextTokens
\* tokens: it is made of the retrieved chunks in descending similarity order, as
\* many of them as fit the budget, and the citation list names just those.
C19_ContextWithinBudget ==
    (chat.pc = "responded" /\ chat.status = 200)
    => /\ ContextTokens(chat.context) <= maxContextTokens
       /\ \A i \in 1..(Len(chat.context) - 1) :
            chat.contextChunks[i].similarity >= chat.contextChunks[i + 1].similarity
       /\ Len(chat.citations) = Len(chat.context)

C21_NoGroundingReported ==
    (/\ chat.pc = "responded"
     /\ chat.status = 200
     /\ chat.includeContext
     /\ chat.contextChunks = <<>>)
    => /\ chat.context = <<>>
       /\ chat.contextChunksCount = 0
       /\ chat.citations = <<>>
       /\ ~chat.contextUsed

\* C22. Every stored conversation holds at most 10 messages, and they are the
\* most recent of the messages pushed to it, in the order they were pushed.
C22_HistoryBounded ==
    \A id \in DOMAIN conversationHistory :
        /\ Len(conversationHistory[id]) <= MaxHistoryLength
        /\ Len(conversationHistory[id]) <= Len(appended[id])
        /\ conversationHistory[id]
                = SubSeq(appended[id],
                         Len(appended[id]) - Len(conversationHistory[id]) + 1,
                         Len(appended[id]))
        /\ Len(appended[id]) >= MaxHistoryLength
                => Len(conversationHistory[id]) = MaxHistoryLength

\* A conversation was cut: twelve messages were pushed and ten are stored.
C22_Witness ==
    \E id \in DOMAIN conversationHistory :
        /\ Len(appended[id]) = 12
        /\ Len(conversationHistory[id]) = MaxHistoryLength

\* C27. Every stored conversation is a sequence of pairs: a user message
\* directly followed by the answer generated for that message, whatever way
\* the requests on the conversation overlap and whenever the history is cut.
C27_HistoryIsPairs ==
    \A id \in DOMAIN conversationHistory :
        /\ Len(conversationHistory[id]) % 2 = 0
        /\ \A i \in 1..Len(conversationHistory[id]) :
            i % 2 = 1
            => /\ conversationHistory[id][i].role = "user"
               /\ conversationHistory[id][i + 1].role = "assistant"
               /\ conversationHistory[id][i + 1].content
                    = conversationHistory[id][i].content

\* Two requests on one conversation overlapped and the later one was answered
\* first, in a conversation that has been cut.
C27_Witness ==
    \E id \in DOMAIN conversationHistory :
        /\ Len(appended[id]) = 12
        /\ \E i \in 1..(MaxHistoryLength - 2) :
                /\ conversationHistory[id][i].content = 2
                /\ conversationHistory[id][i + 2].content = 1

\* C28. A chat request that fails (in the retrieval, in the generation, after
\* the last 503 retry, or in the middle of a stream) leaves the conversation
\* store as it was: the step in which it fails changes no history and adds no
\* conversation.
C28_FailureLeavesStore ==
    [][(\E r \in ChatSlots :
            /\ chatRequests[r].pc # "idle"
            /\ chatRequests'[r].pc = "idle"
            /\ chatRequests'[r].result = "failed")
       => conversationHistory' = conversationHistory]_vars

\* A request failed while a conversation is stored and another request on that
\* conversation is streaming its answer.
C28_Witness ==
    /\ DOMAIN conversationHistory # {}
    /\ \E r \in ChatSlots : chatRequests[r].result = "failed"
    /\ \E r \in ChatSlots : /\ chatRequests[r].pc = "streaming"
                            /\ chatRequests[r].streamed > 0
                            /\ HasConversation(conversationHistory,
                                               chatRequests[r].conversationId)

\* C23. When the embedding of a chunk of an uploaded document fails after its
\* retries while another chunk was embedded, the upload is answered with
\* success and the chunks that were embedded are stored.
C23_UploadSkipsFailedChunk ==
    (/\ upload.pc = "responded"
     /\ batch.pc = "thrown"
     /\ \E p \in Slots : /\ calls[p].owner = "batch"
                         /\ calls[p].pc = "done"
                         /\ calls[p].result.kind = "vector")
    => /\ upload.status = 200
       /\ Len(store) >= 1

\* C29. When an upload fails after its document id was created, then once the
\* handler has answered the vector store holds no vector of the document and
\* the temporary file is deleted.
C29_FailedUploadRolledBack ==
    (/\ upload.pc = "responded"
     /\ upload.status = 500
     /\ upload.documentId # "null")
    => /\ store = <<>>
       /\ upload.file = "deleted"

\* C24. In sentence mode, a chunk the sentence loop of chunkText emits with a
\* recorded tokenCount above chunkSize consists of exactly one sentence, and
\* that sentence's own token count is above chunkSize.
C24_OversizedChunkIsOneSentence ==
    (/\ chunker.pc = "done"
     /\ chunker.preserveSentences
     /\ chunker.path = "sentences")
    => \A k \in 1..Len(chunker.chunks) :
          chunker.chunks[k].tokenCount > chunker.chunkSize
            => /\ Len(chunker.chunks[k].text) = 1
               /\ countTokens(chunker.chunks[k].text[1].w) > chunker.chunkSize

\* C25. With an overlap of 0 or less, the chunks of token-based chunking
\* (preserveSentences = false) do not overlap: the first chunk starts at the
\* first word, each chunk starts at the word after the previous chunk's last
\* word, and the last chunk ends at the last word, so that every word is in
\* exactly one chunk.
C25_NoOverlapPartitionsWords ==
    (/\ chunker.pc = "done"
     /\ ~chunker.preserveSentences
     /\ chunker.path = "words"
     /\ chunker.overlap <= 0)
    => LET chunks == chunker.chunks
       IN  /\ chunks[1].text.lo = 1
           /\ chunks[Len(chunks)].text.hi = WordCount(chunker.doc)
           /\ \A k \in 1..(Len(chunks) - 1) :
                 chunks[k + 1].text.lo = chunks[k].text.hi + 1

\* C26. Every entry of the embedding cache holds a vector of the expected
\* dimension that the provider returned for the text the entry's key is the
\* hash of, and an entry is added or changed only by an attempt of a call with
\* useCache that gets such a vector before its deadline: a failed attempt, the
\* late response of an attempt that timed out and a call with useCache = false
\* leave the entries as they are.
C26_EntryWellFormed(e) ==
    /\ e.value.kind = "vector"
    /\ e.value.len = expectedDimensions
    /\ e.key = generateCacheKey(e.value.src)

C26_EntryWritten(e) ==
    \E p \in Slots :
        /\ calls[p].pc = "inFlight"
        /\ calls[p].useCache
        /\ now <= calls[p].deadline
        /\ calls'[p].pc = "done"
        /\ calls'[p].result = e.value
        /\ e.key = generateCacheKey(calls[p].text)

C26_CacheHoldsProviderVectors ==
    /\ [](\A i \in 1..Len(embeddingCache) : C26_EntryWellFormed(embeddingCache[i]))
    /\ [][\A i \in 1..Len(embeddingCache') :
             \/ \E j \in 1..Len(embeddingCache) : embeddingCache[j] = embeddingCache'[i]
             \/ C26_EntryWritten(embeddingCache'[i])]_vars

\* A call that timed out once and then succeeded has its vector in the cache,
\* while a call made with useCache = false returned a vector for another text
\* and that text has no entry.
C26_Witness ==
    /\ \E p \in Slots :
          /\ calls[p].pc = "done"
          /\ calls[p].useCache
          /\ calls[p].lastError = AttemptError(calls[p].text, "timeout")
          /\ calls[p].result.kind = "vector"
          /\ CacheHas(embeddingCache, generateCacheKey(calls[p].text))
    /\ \E q \in Slots :
          /\ calls[q].pc = "done"
          /\ ~calls[q].useCache
          /\ calls[q].result.kind = "vector"
          /\ ~CacheHas(embeddingCache, generateCacheKey(calls[q].text))

\* C30. In the chat page, the answer or error saved for a message is in the
\* session that holds the message's user entry, at most one chat request is in
\* flight, and every sent message has one user entry.
C30_ReplySavedWithItsMessage ==
    /\ \A id \in DOMAIN ui.chatHistory :
          \A k \in 1..Len(ui.chatHistory[id]) :
             ~ui.chatHistory[id][k].isUser
               => \E j \in 1..Len(ui.chatHistory[id]) :
                     /\ ui.chatHistory[id][j].isUser
                     /\ ui.chatHistory[id][j].message = ui.chatHistory[id][k].message
    /\ Cardinality(ui.inFlight) <= 1
    /\ \A message \in 1..ui.sent :
          Cardinality({<<id, k>> \in (DOMAIN ui.chatHistory) \X (1..(2 * MaxSent)) :
                          /\ k <= Len(ui.chatHistory[id])
                          /\ ui.chatHistory[id][k].isUser
                          /\ ui.chatHistory[id][k].message = message}) <= 1

====
